---------------------------- MODULE Spec2Model ----------------------------
(***************************************************************************)
(* A model of dysk-lustre: the per-target discovery loops of               *)
(* lustre_core.rs, the deduplication and pipeline of lib.rs, is_normal of  *)
(* normal.rs, the column parser of col.rs and the CSV cell writer of       *)
(* csv.rs.                                                                 *)
(*                                                                         *)
(* Strings whose content the code inspects (paths, filesystem names, CSV   *)
(* cells) are sequences of one-character strings; strings the code only    *)
(* compares for equality (filesystem types, column tokens) are TLA+        *)
(* strings.                                                                *)
(***************************************************************************)
EXTENDS Integers, Sequences, FiniteSets, TLC

VARIABLES
    \* ---- target discovery (lustre_core.rs) ----
    native,     \* the native client: what each target answers
    asked,      \* how many times each (family, index) was queried so far
    dpc,        \* position in collect_lustre_mounts / create_lustre_client_mount
    index,      \* mdt_index / ost_index / index of the running loop
    mounts,     \* the Vec<Mount> collect_lustre_mounts builds
    acc,        \* the accumulators of create_lustre_client_mount
    qlog,       \* per loop, the indices it queried, in order
    \* (in the instance search of discover_lustre_mounts: native is the
    \*  availability of the client and the mounted instances, dpc the
    \*  position in the search, index the search index, mounts the
    \*  lustre_mounts list and qlog the indices searched)
    \* ---- one call of a function (check_duplicate, is_normal,
    \*      Col::from_str, Csv::cell) ----
    fpc,        \* "idle" | "ready" (inputs drawn) | "returned"
    arg,        \* the call's arguments
    res,        \* what the call returned or wrote
    \* ---- one execution of run() (lib.rs) ----
    rpc,        \* position in run()
    args,       \* the parsed command line
    sys,        \* what the system answers: mount catalog, discovery
    rows,       \* run's `mounts`
    has_lustre_mounts,
    final_args, \* the column set of final_args
    is_lustre_only_view,
    mount_points_map,
    LUSTRE_INFO,\* the global table behind get_lustre_info / set_lustre_info
    out,        \* what was written, in order
    stages      \* the stages executed so far, in order

dvars == <<native, asked, dpc, index, mounts, acc, qlog>>

fvars == <<fpc, arg, res>>

rvars == <<rpc, args, sys, rows, has_lustre_mounts, final_args,
           is_lustre_only_view, mount_points_map, LUSTRE_INFO, out, stages>>

vars == <<native, asked, dpc, index, mounts, acc, qlog, fpc, arg, res,
          rpc, args, sys, rows, has_lustre_mounts, final_args,
          is_lustre_only_view, mount_points_map, LUSTRE_INFO, out, stages>>

----------------------------------------------------------------------------
(* Strings as sequences of characters *)

Min(a, b) == IF a <= b THEN a ELSE b

\* The characters the model uses, in increasing byte order (ASCII).
Alphabet == <<"\n", "\"", ",", "-", "/", "0", "1", "2", "3", "4", "5", "6",
              "7", "8", "9", ":", ";", "@", "D", "F", "I", "L", "M", "N",
              "O", "S", "T", "U", "[", "]", "_", "a", "b", "c", "d", "e",
              "f", "h", "i", "l", "m", "n", "o", "q", "r", "s", "t", "u", "x",
              "y", "z">>

\* The rank of character c in byte order.
Code(c) == CHOOSE i \in 1..Len(Alphabet) : Alphabet[i] = c

\* str::cmp / Ord for String: byte-wise lexicographic; -1, 0 or 1.
RECURSIVE StrCmp(_, _)
StrCmp(a, b) ==
    IF a = <<>> /\ b = <<>> THEN 0
    ELSE IF a = <<>> THEN -1
    ELSE IF b = <<>> THEN 1
    ELSE IF Code(Head(a)) < Code(Head(b)) THEN -1
    ELSE IF Code(Head(a)) > Code(Head(b)) THEN 1
    ELSE StrCmp(Tail(a), Tail(b))

\* str::contains(char)
ContainsChar(s, c) == \E i \in 1..Len(s) : s[i] = c

\* str::contains(&str)
ContainsStr(s, p) ==
    \E i \in 0..(Len(s) - Len(p)) : SubSeq(s, i + 1, i + Len(p)) = p

\* No call is made.
FnIdle ==
    /\ fpc = "idle"
    /\ arg = <<>>
    /\ res = <<>>

\* run() is not executed.
RunIdle ==
    /\ rpc = "idle"
    /\ args = <<>>
    /\ sys = <<>>
    /\ rows = <<>>
    /\ has_lustre_mounts = FALSE
    /\ final_args = <<>>
    /\ is_lustre_only_view = FALSE
    /\ mount_points_map = <<>>
    /\ LUSTRE_INFO = <<>>
    /\ out = <<>>
    /\ stages = <<>>

Digits == <<"0", "1", "2", "3", "4", "5", "6", "7", "8", "9">>

\* format!("{}", n) of an unsigned integer
RECURSIVE Decimal(_)
Decimal(n) ==
    IF n < 10 THEN <<Digits[n + 1]>>
    ELSE Decimal(n \div 10) \o <<Digits[(n % 10) + 1]>>

HexDigits == <<"0", "1", "2", "3", "4", "5", "6", "7", "8", "9",
               "a", "b", "c", "d", "e", "f">>

\* format!("{:04x}", n): lower-case hexadecimal, zero-padded to 4 digits
RECURSIVE Hex(_)
Hex(n) ==
    IF n < 16 THEN <<HexDigits[n + 1]>>
    ELSE Hex(n \div 16) \o <<HexDigits[(n % 16) + 1]>>

RECURSIVE PadLeft(_, _, _)
PadLeft(s, width, c) ==
    IF Len(s) >= width THEN s ELSE PadLeft(<<c>> \o s, width, c)

Hex04(n) == PadLeft(Hex(n), 4, "0")

\* Option<String>
NoStr == [some |-> FALSE, v |-> <<>>]
SomeStr(s) == [some |-> TRUE, v |-> s]

----------------------------------------------------------------------------
(* lfs_core::Mount as the code fills and reads it *)

NoInodes == [some |-> FALSE, files |-> 0, ffree |-> 0, favail |-> 0]
SomeInodes(files, ffree) ==
    [some |-> TRUE, files |-> files, ffree |-> ffree, favail |-> ffree]

\* Ok(Stats {..})
OkStats(bsize, blocks, bfree, bavail, inodes) ==
    [kind |-> "ok", bsize |-> bsize, blocks |-> blocks, bfree |-> bfree,
     bavail |-> bavail, inodes |-> inodes]

\* Err(StatsError::Unreachable)
Unreachable ==
    [kind |-> "unreachable", bsize |-> 0, blocks |-> 0, bfree |-> 0,
     bavail |-> 0, inodes |-> NoInodes]

\* Err of any other kind: the statistics were not obtained
NoStats ==
    [kind |-> "none", bsize |-> 0, blocks |-> 0, bfree |-> 0,
     bavail |-> 0, inodes |-> NoInodes]

----------------------------------------------------------------------------
(* Target discovery: lustre_core.rs *)

\* The index ceiling of the enumeration loops.
LOV_ALL_STRIPES == 65535

\* The result codes the loops tell apart.
ENODEV == -38
EAGAIN == -11
ENODATA == -61

\* Model bounds: the cap on the ceiling the loops run to, and the number
\* of targets a family may hold.
MaxIndex == 3
MaxTargets == 2

Ceiling == Min(LOV_ALL_STRIPES, MaxIndex)

\* Any code the loops do not know: the target is skipped.
OtherRc == 0 - 5

Families == {"MDT", "OST"}

\* What a present target does when queried:
\*   active_a, active_b  answer success with statistics A or B
\*   inactive            answers ENODATA
\*   busy                answers EAGAIN on its first query, success afterwards
\*   failing             answers a code the loops do not know
Behaviours == {"active_a", "active_b", "inactive", "busy", "failing"}

\* obd_statfs::default(): zeroed
ZeroStat == [os_bsize |-> 0, os_blocks |-> 0, os_bfree |-> 0, os_bavail |-> 0,
             os_files |-> 0, os_ffree |-> 0]

StatA == [os_bsize |-> 4096, os_blocks |-> 4, os_bfree |-> 2, os_bavail |-> 1,
          os_files |-> 3, os_ffree |-> 2]

StatB == [os_bsize |-> 1024, os_blocks |-> 2, os_bfree |-> 1, os_bavail |-> 1,
          os_files |-> 0, os_ffree |-> 0]

\* The mount directory and filesystem name llapi_search_mounts reported.
Mntdir == <<"/", "l">>
Fsname == <<"f", "s">>

FamilyChars(component_type) ==
    IF component_type = "MDT" THEN <<"M", "D", "T">> ELSE <<"O", "S", "T">>

\* The uuid a target reports: "<fsname>-<FAMILY><index:04>_UUID"
TargetUuid(fam, i) ==
    Fsname \o <<"-">> \o FamilyChars(fam)
    \o PadLeft(Decimal(i), 4, "0") \o <<"_", "U", "U", "I", "D">>

Targets(fam) == IF fam = "MDT" THEN native.mdt ELSE native.ost

\* llapi_obd_fstatfs(fd, type, index, &stat_buf, &uuid_buf): the result
\* code and what it leaves in the two buffers, for a target that was
\* queried n times before.
Answer(fam, i, n) ==
    IF i >= Len(Targets(fam))
    THEN [rc |-> native.tail, stat |-> ZeroStat, uuid |-> <<>>]
    ELSE LET b == Targets(fam)[i + 1] IN
         CASE b = "active_a" ->
                [rc |-> 0, stat |-> StatA, uuid |-> TargetUuid(fam, i)]
           [] b = "active_b" ->
                [rc |-> 0, stat |-> StatB, uuid |-> <<>>]
           [] b = "inactive" ->
                [rc |-> ENODATA, stat |-> ZeroStat, uuid |-> TargetUuid(fam, i)]
           [] b = "busy" ->
                IF n = 0
                THEN [rc |-> EAGAIN, stat |-> ZeroStat, uuid |-> <<>>]
                ELSE [rc |-> 0, stat |-> StatA, uuid |-> TargetUuid(fam, i)]
           [] OTHER ->
                [rc |-> OtherRc, stat |-> ZeroStat, uuid |-> <<>>]

\* create_lustre_component_mount
create_lustre_component_mount(mntdir, fsname, stat_buf, uuid_str, component_type, idx, rc) ==
    LET component_name ==
            IF uuid_str = <<>>
            THEN FamilyChars(component_type) \o <<":">> \o Hex04(idx)
            ELSE uuid_str
        component_mount_point ==
            mntdir \o <<"[">> \o FamilyChars(component_type) \o <<":">>
            \o Decimal(idx) \o <<"]">>
        inodes ==
            IF stat_buf.os_files > 0
            THEN SomeInodes(stat_buf.os_files, stat_buf.os_ffree)
            ELSE NoInodes
    IN  [id |-> 0,
         dev |-> [major |-> IF component_type = "MDT" THEN 1 ELSE 2,
                  minor |-> idx],
         fs |-> component_name,
         fs_type |-> "lustre",
         mount_point |-> component_mount_point,
         bound |-> FALSE,
         remote |-> FALSE,
         stats |-> IF rc = 0
                   THEN OkStats(stat_buf.os_bsize, stat_buf.os_blocks,
                                stat_buf.os_bfree, stat_buf.os_bavail, inodes)
                   ELSE Unreachable,
         disk |-> FALSE,
         fs_label |-> SomeStr(fsname \o <<"-">> \o FamilyChars(component_type)),
         uuid |-> IF uuid_str = <<>> THEN NoStr ELSE SomeStr(uuid_str),
         part_uuid |-> NoStr]

\* The accumulators create_lustre_client_mount starts with.
AccInit == [total_blocks |-> 0, total_bfree |-> 0, total_bavail |-> 0,
            total_files |-> 0, total_ffree |-> 0, bsize |-> 4096,
            ost_count |-> 0]

\* ClientMount reporting the free blocks as the available blocks.
ClientMountFreeAsAvail(mntdir, fsname, a) ==
    [id |-> 0,
     dev |-> [major |-> 0, minor |-> 0],
     fs |-> fsname \o <<"@", "l", "u", "s", "t", "r", "e">>,
     fs_type |-> "lustre",
     mount_point |-> mntdir,
     bound |-> FALSE,
     remote |-> FALSE,
     stats |-> IF a.total_blocks > 0 /\ a.ost_count > 0
               THEN OkStats(a.bsize, a.total_blocks, a.total_bfree,
                            a.total_bfree,
                            IF a.total_files > 0
                            THEN SomeInodes(a.total_files, a.total_ffree)
                            ELSE NoInodes)
               ELSE Unreachable,
     disk |-> FALSE,
     fs_label |-> SomeStr(<<"L", "u", "s", "t", "r", "e", "-">> \o fsname),
     uuid |-> NoStr,
     part_uuid |-> NoStr]

\* ClientMount without the test on the accumulators: statistics whatever
\* was summed.
ClientMountAlwaysStats(mntdir, fsname, a) ==
    [id |-> 0,
     dev |-> [major |-> 0, minor |-> 0],
     fs |-> fsname \o <<"@", "l", "u", "s", "t", "r", "e">>,
     fs_type |-> "lustre",
     mount_point |-> mntdir,
     bound |-> FALSE,
     remote |-> FALSE,
     stats |-> OkStats(a.bsize, a.total_blocks, a.total_bfree,
                       a.total_bavail,
                       IF a.total_files > 0
                       THEN SomeInodes(a.total_files, a.total_ffree)
                       ELSE NoInodes),
     disk |-> FALSE,
     fs_label |-> SomeStr(<<"L", "u", "s", "t", "r", "e", "-">> \o fsname),
     uuid |-> NoStr,
     part_uuid |-> NoStr]

\* The Mount create_lustre_client_mount builds from its accumulators.
ClientMount(mntdir, fsname, a) ==
    [id |-> 0,
     dev |-> [major |-> 0, minor |-> 0],
     fs |-> fsname \o <<"@", "l", "u", "s", "t", "r", "e">>,
     fs_type |-> "lustre",
     mount_point |-> mntdir,
     bound |-> FALSE,
     remote |-> FALSE,
     stats |-> IF a.total_blocks > 0 /\ a.ost_count > 0
               THEN OkStats(a.bsize, a.total_blocks, a.total_bfree,
                            a.total_bavail,
                            IF a.total_files > 0
                            THEN SomeInodes(a.total_files, a.total_ffree)
                            ELSE NoInodes)
               ELSE Unreachable,
     disk |-> FALSE,
     fs_label |-> SomeStr(<<"L", "u", "s", "t", "r", "e", "-">> \o fsname),
     uuid |-> NoStr,
     part_uuid |-> NoStr]

Loops == {"mdt", "ost", "client_ost", "client_mdt"}

\* One llapi_obd_fstatfs call of loop l on (fam, i): counted and logged.
Query(l, fam, i) ==
    /\ asked' = [asked EXCEPT ![fam][i] = @ + 1]
    /\ qlog' = [qlog EXCEPT ![l] = Append(@, i)]

\* InRange with the comparison off by one (`<=` for `<`).
InRangeInclusive(i) == i <= Ceiling

\* `while index < LOV_ALL_STRIPES`: the condition of the four loops.
InRange(i) == i < Ceiling

\* LoopControl with EAGAIN retrying the same index (the increment before
\* `continue` left out).
LoopControlRetry(rc, i) ==
    IF rc = ENODEV THEN [brk |-> TRUE, idx |-> i]
    ELSE IF rc = EAGAIN THEN [brk |-> FALSE, idx |-> i]
    ELSE [brk |-> FALSE, idx |-> i + 1]

\* LoopControl with the `continue` left out: EAGAIN increments, falls
\* through and increments again.
LoopControlNoContinue(rc, i) ==
    IF rc = ENODEV THEN [brk |-> TRUE, idx |-> i]
    ELSE IF rc = EAGAIN THEN [brk |-> FALSE, idx |-> i + 2]
    ELSE [brk |-> FALSE, idx |-> i + 1]

\* LoopControl with no code ending the loop.
LoopControlNoBreak(rc, i) == [brk |-> FALSE, idx |-> i + 1]

\* What one iteration does with the result code rc at index i, the same in
\* the four loops: ENODEV breaks; EAGAIN increments and continues; any
\* other code falls through to the increment that ends the body.
LoopControl(rc, i) ==
    IF rc = ENODEV THEN [brk |-> TRUE, idx |-> i]
    ELSE IF rc = EAGAIN THEN [brk |-> FALSE, idx |-> i + 1]
    ELSE [brk |-> FALSE, idx |-> i + 1]

\* Emits with the ENODATA arm left out.
EmitsSuccessOnly(rc) == rc = 0

\* `if rc == 0 || rc == -61`: the component loops push a record.
Emits(rc) == rc = 0 \/ rc = ENODATA

\* `if rc == 0`: the aggregate's loops add the target's figures.
Sums(rc) == rc = 0

\* The environments: up to MaxTargets present targets per family, and what
\* every index past them answers.
SeqsUpTo(S, n) == UNION {[1..k -> S] : k \in 0..n}

Natives ==
    [mdt : SeqsUpTo(Behaviours, MaxTargets),
     ost : SeqsUpTo(Behaviours, MaxTargets),
     tail : {ENODEV, OtherRc}]

DiscInit ==
    /\ native \in Natives
    /\ asked = [f \in Families |-> [i \in 0..(Ceiling + 1) |-> 0]]
    /\ dpc = "open"
    /\ index = 0
    /\ mounts = <<>>
    /\ acc = AccInit
    /\ qlog = [l \in Loops |-> <<>>]
    /\ FnIdle
    /\ RunIdle

\* No discovery runs.
DiscIdle ==
    /\ native = [mdt |-> <<>>, ost |-> <<>>, tail |-> ENODEV]
    /\ asked = [f \in Families |-> [i \in 0..(Ceiling + 1) |-> 0]]
    /\ dpc = "idle"
    /\ index = 0
    /\ mounts = <<>>
    /\ acc = AccInit
    /\ qlog = [l \in Loops |-> <<>>]

\* collect_lustre_mounts: libc::open of the mount directory.
Open ==
    /\ dpc = "open"
    /\ \/ dpc' = "mdt"
       \/ dpc' = "failed"
    /\ index' = 0
    /\ UNCHANGED <<native, asked, mounts, acc, qlog>>
    /\ UNCHANGED <<fvars, rvars>>

\* One iteration of the MDT loop of collect_lustre_mounts.
MdtQuery ==
    /\ dpc = "mdt"
    /\ InRange(index)
    /\ LET a == Answer("MDT", index, asked["MDT"][index])
           c == LoopControl(a.rc, index)
       IN
       /\ Query("mdt", "MDT", index)
       /\ IF c.brk
          THEN /\ dpc' = "ost"
               /\ index' = 0
               /\ UNCHANGED mounts
          ELSE /\ dpc' = dpc
               /\ index' = c.idx
               /\ mounts' =
                    IF a.rc # EAGAIN /\ Emits(a.rc)
                    THEN Append(mounts,
                                create_lustre_component_mount(
                                    Mntdir, Fsname, a.stat, a.uuid,
                                    "MDT", index, a.rc))
                    ELSE mounts
    /\ UNCHANGED <<native, acc>>
    /\ UNCHANGED <<fvars, rvars>>

\* The MDT loop's condition fails: the index reached the ceiling.
MdtExhausted ==
    /\ dpc = "mdt"
    /\ ~InRange(index)
    /\ dpc' = "ost"
    /\ index' = 0
    /\ UNCHANGED <<native, asked, mounts, acc, qlog>>
    /\ UNCHANGED <<fvars, rvars>>

\* One iteration of the OST loop of collect_lustre_mounts.
OstQuery ==
    /\ dpc = "ost"
    /\ InRange(index)
    /\ LET a == Answer("OST", index, asked["OST"][index])
           c == LoopControl(a.rc, index)
       IN
       /\ Query("ost", "OST", index)
       /\ IF c.brk
          THEN /\ dpc' = "client_open"
               /\ index' = 0
               /\ UNCHANGED mounts
          ELSE /\ dpc' = dpc
               /\ index' = c.idx
               /\ mounts' =
                    IF a.rc # EAGAIN /\ Emits(a.rc)
                    THEN Append(mounts,
                                create_lustre_component_mount(
                                    Mntdir, Fsname, a.stat, a.uuid,
                                    "OST", index, a.rc))
                    ELSE mounts
    /\ UNCHANGED <<native, acc>>
    /\ UNCHANGED <<fvars, rvars>>

\* The OST loop's condition fails: the index reached the ceiling.
OstExhausted ==
    /\ dpc = "ost"
    /\ ~InRange(index)
    /\ dpc' = "client_open"
    /\ index' = 0
    /\ UNCHANGED <<native, asked, mounts, acc, qlog>>
    /\ UNCHANGED <<fvars, rvars>>

\* create_lustre_client_mount: its own open of the mount directory; on
\* failure collect_lustre_mounts pushes no aggregate.
ClientOpen ==
    /\ dpc = "client_open"
    /\ \/ dpc' = "client_ost"
       \/ dpc' = "done"
    /\ index' = 0
    /\ acc' = AccInit
    /\ UNCHANGED <<native, asked, mounts, qlog>>
    /\ UNCHANGED <<fvars, rvars>>

\* One iteration of the OST loop of create_lustre_client_mount.
ClientOstQuery ==
    /\ dpc = "client_ost"
    /\ InRange(index)
    /\ LET a == Answer("OST", index, asked["OST"][index])
           c == LoopControl(a.rc, index)
       IN
       /\ Query("client_ost", "OST", index)
       /\ IF c.brk
          THEN /\ dpc' = "client_mdt"
               /\ index' = 0
               /\ UNCHANGED acc
          ELSE /\ dpc' = dpc
               /\ index' = c.idx
               /\ acc' =
                    IF a.rc # EAGAIN /\ Sums(a.rc)
                    THEN [acc EXCEPT
                            !.total_blocks = @ + a.stat.os_blocks,
                            !.total_bfree = @ + a.stat.os_bfree,
                            !.total_bavail = @ + a.stat.os_bavail,
                            !.bsize = IF @ = 4096 THEN a.stat.os_bsize ELSE @,
                            !.ost_count = @ + 1]
                    ELSE acc
    /\ UNCHANGED <<native, mounts>>
    /\ UNCHANGED <<fvars, rvars>>

\* The aggregate's OST loop reached the ceiling.
ClientOstExhausted ==
    /\ dpc = "client_ost"
    /\ ~InRange(index)
    /\ dpc' = "client_mdt"
    /\ index' = 0
    /\ UNCHANGED <<native, asked, mounts, acc, qlog>>
    /\ UNCHANGED <<fvars, rvars>>

\* One iteration of the MDT loop of create_lustre_client_mount; when the
\* loop ends the aggregate Mount is built and collect_lustre_mounts pushes
\* it.
ClientMdtQuery ==
    /\ dpc = "client_mdt"
    /\ InRange(index)
    /\ LET a == Answer("MDT", index, asked["MDT"][index])
           c == LoopControl(a.rc, index)
       IN
       /\ Query("client_mdt", "MDT", index)
       /\ IF c.brk
          THEN /\ dpc' = "done"
               /\ index' = 0
               /\ UNCHANGED acc
               /\ mounts' = Append(mounts, ClientMount(Mntdir, Fsname, acc))
          ELSE /\ dpc' = dpc
               /\ index' = c.idx
               /\ acc' =
                    IF a.rc # EAGAIN /\ Sums(a.rc)
                    THEN [acc EXCEPT
                            !.total_files = @ + a.stat.os_files,
                            !.total_ffree = @ + a.stat.os_ffree]
                    ELSE acc
               /\ UNCHANGED mounts
    /\ UNCHANGED native
    /\ UNCHANGED <<fvars, rvars>>

\* The aggregate's MDT loop reached the ceiling: the aggregate is built
\* and pushed.
ClientMdtExhausted ==
    /\ dpc = "client_mdt"
    /\ ~InRange(index)
    /\ dpc' = "done"
    /\ index' = 0
    /\ mounts' = Append(mounts, ClientMount(Mntdir, Fsname, acc))
    /\ UNCHANGED <<native, asked, acc, qlog>>
    /\ UNCHANGED <<fvars, rvars>>

DiscNext ==
    \/ Open
    \/ MdtQuery
    \/ MdtExhausted
    \/ OstQuery
    \/ OstExhausted
    \/ ClientOpen
    \/ ClientOstQuery
    \/ ClientOstExhausted
    \/ ClientMdtQuery
    \/ ClientMdtExhausted

Spec == DiscInit /\ [][DiscNext]_vars

----------------------------------------------------------------------------
(* Claims about target discovery *)

\* The family a loop queries.
LoopFamily(l) == IF l \in {"mdt", "client_mdt"} THEN "MDT" ELSE "OST"

\* is_lustre_component_mount with the "[OST:" test left out.
is_lustre_component_mount_mdt_only(m) ==
    ContainsStr(m.mount_point, <<"[", "M", "D", "T", ":">>)

\* is_lustre_component_mount (lib.rs): the path carries [MDT: or [OST:
is_lustre_component_mount(m) ==
    \/ ContainsStr(m.mount_point, <<"[", "M", "D", "T", ":">>)
    \/ ContainsStr(m.mount_point, <<"[", "O", "S", "T", ":">>)

ComponentRecords(ms) ==
    {k \in 1..Len(ms) : is_lustre_component_mount(ms[k])}

AggregateRecords(ms) ==
    {k \in 1..Len(ms) : ~is_lustre_component_mount(ms[k])}

\* No loop has issued more queries than the ceiling.
C1_Bound == \A l \in Loops : Len(qlog[l]) <= Ceiling

\* One step of a running loop: at the ceiling the loop ends without a
\* query; below it the loop either ends on ENODEV or stays with a strictly
\* larger index.
C1_Step ==
    \A l \in Loops :
        dpc = l =>
            IF index >= Ceiling
            THEN dpc' # l /\ qlog' = qlog
            ELSE \/ /\ dpc' # l
                    /\ Answer(LoopFamily(l), index,
                              asked[LoopFamily(l)][index]).rc = ENODEV
                 \/ /\ dpc' = l
                    /\ index' > index
                    /\ Len(qlog'[l]) = Len(qlog[l]) + 1

\* C1: each of the four per-family enumeration loops terminates after at
\* most the ceiling's number of queries: every iteration either stops on
\* "no such device" or strictly increases the index, and a loop whose
\* index reached the ceiling ends.
C1_LoopsTerminate == [][C1_Step /\ C1_Bound']_vars

\* Every loop ran into the ceiling without a terminal code.
C1_Witness ==
    /\ dpc = "done"
    /\ \A l \in Loops : Len(qlog[l]) = Ceiling

\* C2: each loop queries its family's indices in strictly increasing order
\* (so each index at most once per pass), and no two component records
\* emitted carry the same (family, index): neither as device id (family
\* number, index) nor as mount point "<mntdir>[FAMILY:index]".
C2_NoDuplicateTargets ==
    /\ \A l \in Loops :
        \A j, k \in 1..Len(qlog[l]) : j < k => qlog[l][j] < qlog[l][k]
    /\ \A j, k \in ComponentRecords(mounts) :
        j # k => /\ mounts[j].dev # mounts[k].dev
                 /\ mounts[j].mount_point # mounts[k].mount_point

\* Discovery finished with two component records of each family.
C2_Witness ==
    /\ dpc = "done"
    /\ Cardinality({k \in ComponentRecords(mounts) :
                        mounts[k].dev.major = 1}) >= 2
    /\ Cardinality({k \in ComponentRecords(mounts) :
                        mounts[k].dev.major = 2}) >= 2

\* Scenario B: one metadata target answering success; two object targets,
\* one answering success, the other "try again" on its first query and
\* success afterwards; no further targets.
ScenarioB ==
    /\ native.mdt \in {<<"active_a">>, <<"active_b">>}
    /\ native.ost \in {<<"active_a", "busy">>, <<"active_b", "busy">>,
                       <<"busy", "active_a">>, <<"busy", "active_b">>}
    /\ native.tail = ENODEV

\* C3 as the specification states it: in scenario B discovery yields exactly 3 component
\* records plus 1 aggregate record.
C3_Original ==
    (ScenarioB /\ dpc = "done") =>
        /\ Cardinality(ComponentRecords(mounts)) = 3
        /\ Cardinality(AggregateRecords(mounts)) = 1

\* C3 amended: in scenario B discovery yields exactly 2 component records
\* (the metadata target and the object target that answered success; the
\* target that answered "try again" is skipped and not queried again by
\* the component loop), plus 1 aggregate record when the aggregate pass
\* opened the mount directory and none otherwise.
C3_ScenarioB ==
    (ScenarioB /\ dpc = "done") =>
        /\ Cardinality(ComponentRecords(mounts)) = 2
        /\ \A k \in ComponentRecords(mounts) :
                mounts[k].stats.kind = "ok"
        /\ Cardinality(AggregateRecords(mounts)) =
                IF qlog["client_ost"] # <<>> THEN 1 ELSE 0

\* Scenario B ran to the end with the aggregate built.
C3_Witness ==
    /\ ScenarioB
    /\ dpc = "done"
    /\ Cardinality(AggregateRecords(mounts)) = 1
    /\ asked["OST"][0] = 2
    /\ asked["OST"][1] = 2

----------------------------------------------------------------------------
(* is_normal: normal.rs *)

\* A Mount of the system catalog, as far as is_normal reads it.
CatalogMount(fs_type, stats, disk, remote, bound) ==
    [id |-> 1,
     dev |-> [major |-> 8, minor |-> 1],
     fs |-> <<"d">>,
     fs_type |-> fs_type,
     mount_point |-> <<"/", "a">>,
     bound |-> bound,
     remote |-> remote,
     stats |-> stats,
     disk |-> disk,
     fs_label |-> NoStr,
     uuid |-> NoStr,
     part_uuid |-> NoStr]

\* Mount::is_unreachable(): the statistics failed with Unreachable
is_unreachable(m) == m.stats.kind = "unreachable"

\* Mount::stats().is_some()
has_stats(m) == m.stats.kind = "ok"

\* The filesystem types returned as normal before any other test.
AlwaysNormalWide == {"lustre", "zfs"}

AlwaysNormal == {"lustre"}

\* is_normal with the test of the bind mount left out.
is_normal_keeps_bound(m) ==
    IF m.fs_type \in AlwaysNormal THEN TRUE
    ELSE /\ (has_stats(m) \/ is_unreachable(m))
         /\ (m.disk \/ m.fs_type = "zfs" \/ m.remote \/ m.fs_type = "lustre")
         /\ m.fs_type # "squashfs"

\* is_normal
is_normal(m) ==
    IF m.fs_type \in AlwaysNormal THEN TRUE
    ELSE /\ (has_stats(m) \/ is_unreachable(m))
         /\ (m.disk \/ m.fs_type = "zfs" \/ m.remote \/ m.fs_type = "lustre")
         /\ ~m.bound
         /\ m.fs_type # "squashfs"

FsTypes == {"lustre", "zfs", "ext4", "squashfs", "nfs"}

NormalInputs ==
    {CatalogMount(t, st, d, r, b) :
        t \in FsTypes, st \in {OkStats(4096, 4, 2, 1, NoInodes), Unreachable, NoStats},
        d \in BOOLEAN, r \in BOOLEAN, b \in BOOLEAN}

NormalInit ==
    /\ DiscIdle
    /\ RunIdle
    /\ fpc = "ready"
    /\ arg \in NormalInputs
    /\ res = <<>>

\* One call is_normal(&arg).
CallIsNormal ==
    /\ fpc = "ready"
    /\ res' = is_normal(arg)
    /\ fpc' = "returned"
    /\ UNCHANGED arg
    /\ UNCHANGED <<dvars, rvars>>

SpecNormal == NormalInit /\ [][CallIsNormal]_vars

----------------------------------------------------------------------------
(* Claims about is_normal *)

\* "Derives from a disk-backed device, or its type is on the allow-list"
\* and the record's other three classes.
Clustered(m) == m.fs_type = "lustre"
AllowListed(m) == m.fs_type = "zfs"
Excluded(m) == m.fs_type = "squashfs"

\* C6 as the specification states it: for a record with no statistics
\* that is not unreachable, is_normal is true only if the record is
\* clustered, remote, disk-backed or allow-listed, and is neither a bind
\* mount nor of the excluded type.
C6_Original ==
    (fpc = "returned" /\ ~has_stats(arg) /\ ~is_unreachable(arg) /\ res = TRUE) =>
        /\ (Clustered(arg) \/ arg.remote \/ arg.disk \/ AllowListed(arg))
        /\ ~arg.bound
        /\ ~Excluded(arg)

\* C6 amended: for a record with no statistics that is not unreachable,
\* is_normal is true exactly when the record is clustered; a clustered
\* record is normal even as a bind mount, and no other record without
\* statistics is normal whatever its remoteness, disk or type.
C6_NormalWithoutStats ==
    (fpc = "returned" /\ ~has_stats(arg) /\ ~is_unreachable(arg)) =>
        (res = TRUE <=> Clustered(arg))

\* A clustered bind mount without statistics was judged normal.
C6_Witness ==
    /\ fpc = "returned"
    /\ ~has_stats(arg) /\ ~is_unreachable(arg)
    /\ Clustered(arg) /\ arg.bound
    /\ res = TRUE

----------------------------------------------------------------------------
(* Column names: col.rs *)

\* The col_enum! table: variant, canonical name, aliases, in the order of
\* the macro invocation.
ColTable ==
    << [variant |-> "Id", name |-> "id", aliases |-> <<>>],
       [variant |-> "Dev", name |-> "dev", aliases |-> <<"device", "device_id">>],
       [variant |-> "Filesystem", name |-> "fs", aliases |-> <<"filesystem">>],
       [variant |-> "Label", name |-> "label", aliases |-> <<>>],
       [variant |-> "Type", name |-> "type", aliases |-> <<>>],
       [variant |-> "Remote", name |-> "remote", aliases |-> <<"rem">>],
       [variant |-> "Disk", name |-> "disk", aliases |-> <<"dsk">>],
       [variant |-> "Used", name |-> "used", aliases |-> <<>>],
       [variant |-> "Use", name |-> "use", aliases |-> <<>>],
       [variant |-> "UsePercent", name |-> "use_percent", aliases |-> <<>>],
       [variant |-> "Free", name |-> "free", aliases |-> <<>>],
       [variant |-> "FreePercent", name |-> "free_percent", aliases |-> <<>>],
       [variant |-> "Size", name |-> "size", aliases |-> <<>>],
       [variant |-> "InodesUsed", name |-> "inodes_used", aliases |-> <<"iused">>],
       [variant |-> "InodesUse", name |-> "inodes", aliases |-> <<"ino", "inodes_use", "iuse">>],
       [variant |-> "InodesUsePercent", name |-> "inodes_use_percent", aliases |-> <<"iuse_percent">>],
       [variant |-> "InodesFree", name |-> "inodes_free", aliases |-> <<"ifree">>],
       [variant |-> "InodesCount", name |-> "inodes_total", aliases |-> <<"inodes_count", "itotal">>],
       [variant |-> "MountPoint", name |-> "mount", aliases |-> <<"mount_point", "mp">>],
       [variant |-> "FsName", name |-> "fsname", aliases |-> <<"fs_name">>],
       [variant |-> "Uuid", name |-> "uuid", aliases |-> <<>>],
       [variant |-> "PartUuid", name |-> "partuuid", aliases |-> <<"part_uuid">>],
       [variant |-> "StripeCount", name |-> "stripe_count", aliases |-> <<"stripes">>],
       [variant |-> "StripeSize", name |-> "stripe_size", aliases |-> <<>>],
       [variant |-> "LustreVersion", name |-> "lustre_version", aliases |-> <<"lus_ver">>],
       [variant |-> "PoolName", name |-> "pool_name", aliases |-> <<"pool">>],
       [variant |-> "ComponentType", name |-> "component_type", aliases |-> <<"comp_type">>],
       [variant |-> "ComponentIndex", name |-> "component_index", aliases |-> <<"comp_idx">>],
       [variant |-> "MirrorCount", name |-> "mirror_count", aliases |-> <<"mirrors">>] >>

\* Col::name / Col::aliases of the column at row r of the table
ColPatterns(r) == <<ColTable[r].name>> \o ColTable[r].aliases

\* The match arms the macro expands from_str to: for each column, its
\* name arm and then its alias arms.
RECURSIVE ArmsFrom(_)
ArmsFrom(r) ==
    IF r > Len(ColTable) THEN <<>>
    ELSE [k \in 1..Len(ColPatterns(r)) |->
              [pattern |-> ColPatterns(r)[k], variant |-> ColTable[r].variant]]
         \o ArmsFrom(r + 1)

\* The arms with the alias arms left out.
RECURSIVE NameArmsFrom(_)
NameArmsFrom(r) ==
    IF r > Len(ColTable) THEN <<>>
    ELSE <<[pattern |-> ColTable[r].name, variant |-> ColTable[r].variant]>>
         \o NameArmsFrom(r + 1)

NameArms == NameArmsFrom(1)

Arms == ArmsFrom(1)

\* ParseColError::new(s)
ParseColError(s) == [ok |-> FALSE, col |-> "", raw |-> s]

\* Col::from_str: the first arm whose pattern equals s decides; the
\* wildcard arm builds the error from s.
from_str(s) ==
    LET hits == {k \in 1..Len(Arms) : Arms[k].pattern = s} IN
    IF hits = {} THEN ParseColError(s)
    ELSE LET first == CHOOSE k \in hits : \A j \in hits : k <= j
         IN  [ok |-> TRUE, col |-> Arms[first].variant, raw |-> ""]

\* Tokens that are no column's name or alias.
OtherTokens ==
    {"", " ", "ID", "Size", "sizes", "siz", "mount point", "mount-point",
     "fs,type", "inode", "stripe", "all", "default", "+size", "-size",
     "usepercent", "device id", "mountpoint", "ost", "mdt"}

Tokens ==
    {ColTable[r].name : r \in 1..Len(ColTable)}
    \cup UNION {{ColTable[r].aliases[k] : k \in 1..Len(ColTable[r].aliases)} :
                    r \in 1..Len(ColTable)}
    \cup OtherTokens

ColInit ==
    /\ DiscIdle
    /\ RunIdle
    /\ fpc = "ready"
    /\ arg \in Tokens
    /\ res = <<>>

\* One call arg.parse::<Col>().
CallFromStr ==
    /\ fpc = "ready"
    /\ res' = from_str(arg)
    /\ fpc' = "returned"
    /\ UNCHANGED arg
    /\ UNCHANGED <<dvars, rvars>>

SpecCol == ColInit /\ [][CallFromStr]_vars

----------------------------------------------------------------------------
(* Claims about column parsing *)

\* The tokens the table gives the column at row r.
TableTokens(r) ==
    {ColTable[r].name} \cup
    {ColTable[r].aliases[k] : k \in 1..Len(ColTable[r].aliases)}

\* C7: column parsing agrees with the name/alias table on every token:
\* a token that is the canonical name or an alias of a column parses to
\* exactly that column (so no token belongs to two columns), and a token
\* that is no name and no alias parses to a ParseColError whose raw
\* string is the token.
C7_ParseAgreesWithTable ==
    fpc = "returned" =>
        /\ \A r \in 1..Len(ColTable) :
              arg \in TableTokens(r) =>
                  res.ok /\ res.col = ColTable[r].variant
        /\ (\A r \in 1..Len(ColTable) : arg \notin TableTokens(r)) =>
              ~res.ok /\ res.raw = arg

\* The alias "device_id" was parsed to the Dev column.
C7_Witness ==
    /\ fpc = "returned"
    /\ arg = "device_id"
    /\ res.ok /\ res.col = "Dev"

----------------------------------------------------------------------------
(* The CSV cell writer: csv.rs *)

\* The longest cell text drawn.
MaxCell == 3

CellChars == {",", ";", "\"", "\n", "a"}

Separators == {",", ";"}

\* needs_quotes with the newline test left out.
needs_quotes_no_newline(s, separator) ==
    ContainsChar(s, separator) \/ ContainsChar(s, "\"")

\* `s.contains(self.separator) || s.contains('"') || s.contains('\n')`
needs_quotes(s, separator) ==
    ContainsChar(s, separator) \/ ContainsChar(s, "\"") \/ ContainsChar(s, "\n")

\* `for c in s.chars()`: a double quote is written twice, any other
\* character once.
RECURSIVE WriteChars(_)
WriteChars(s) ==
    IF s = <<>> THEN <<>>
    ELSE (IF Head(s) = "\"" THEN <<"\"", "\"">> ELSE <<Head(s)>>)
         \o WriteChars(Tail(s))

\* Csv::cell: what the call appends to the writer w.
cell(w, separator, s) ==
    w \o (IF needs_quotes(s, separator)
          THEN <<"\"">> \o WriteChars(s) \o <<"\"">>
          ELSE s)
      \o <<separator>>

CsvInit ==
    /\ DiscIdle
    /\ RunIdle
    /\ fpc = "ready"
    /\ arg \in [separator : Separators, content : SeqsUpTo(CellChars, MaxCell)]
    /\ res = <<>>

\* One call csv.cell(content) on an empty writer.
CallCell ==
    /\ fpc = "ready"
    /\ res' = cell(<<>>, arg.separator, arg.content)
    /\ fpc' = "returned"
    /\ UNCHANGED arg
    /\ UNCHANGED <<dvars, rvars>>

SpecCsv == CsvInit /\ [][CallCell]_vars

----------------------------------------------------------------------------
(* Claims about the CSV cell writer *)

\* Reading a quoted field's inside back: two double quotes stand for one,
\* a lone double quote is malformed.
RECURSIVE Unquote(_)
Unquote(t) ==
    IF t = <<>> THEN [ok |-> TRUE, v |-> <<>>]
    ELSE IF Head(t) = "\""
         THEN IF Len(t) >= 2 /\ t[2] = "\""
              THEN LET r == Unquote(Tail(Tail(t)))
                   IN  [ok |-> r.ok, v |-> <<"\"">> \o r.v]
              ELSE [ok |-> FALSE, v |-> <<>>]
         ELSE LET r == Unquote(Tail(t))
              IN  [ok |-> r.ok, v |-> <<Head(t)>> \o r.v]

CountChar(t, c) == Cardinality({k \in 1..Len(t) : t[k] = c})

\* C8: Csv::cell writes the text wrapped in double quotes, every internal
\* double quote doubled, if and only if the text contains the separator, a
\* double quote or a newline; otherwise it writes the text unchanged; in
\* both cases, the empty cell included, exactly one separator follows.
C8_CellQuoting ==
    fpc = "returned" =>
        LET s == arg.content
            sep == arg.separator
            special == \E k \in 1..Len(s) : s[k] \in {sep, "\"", "\n"}
            body == SubSeq(res, 1, Len(res) - 1)
            inner == SubSeq(body, 2, Len(body) - 1)
        IN  /\ Len(res) >= 1
            /\ res[Len(res)] = sep
            /\ IF special
               THEN /\ Len(body) >= 2
                    /\ body[1] = "\"" /\ body[Len(body)] = "\""
                    /\ Unquote(inner).ok
                    /\ Unquote(inner).v = s
                    /\ CountChar(inner, "\"") = 2 * CountChar(s, "\"")
                    /\ Len(inner) = Len(s) + CountChar(s, "\"")
               ELSE body = s

\* test_csv's second cell: a lone double quote with separator ';' is
\* written as four double quotes and the separator.
C8_Witness ==
    /\ fpc = "returned"
    /\ arg = [separator |-> ";", content |-> <<"\"">>]
    /\ res = <<"\"", "\"", "\"", "\"", ";">>

----------------------------------------------------------------------------
(* Deduplication: check_duplicate and choose_representative_mount, lib.rs *)

\* The longest mount list drawn.
MaxMounts == 3

\* The filesystem type as the String extract_fsname clones.
FsTypeChars(t) ==
    CASE t = "lustre" -> <<"l", "u", "s", "t", "r", "e">>
      [] t = "zfs" -> <<"z", "f", "s">>
      [] t = "ext4" -> <<"e", "x", "t", "4">>
      [] t = "squashfs" -> <<"s", "q", "u", "a", "s", "h", "f", "s">>
      [] OTHER -> <<"n", "f", "s">>

\* extract_fsname (col.rs): the mount point for lustre, the filesystem
\* type for any other record
extract_fsname(mount) ==
    IF mount.fs_type = "lustre" THEN mount.mount_point
    ELSE FsTypeChars(mount.fs_type)

\* The group key check_duplicate formats for a record.
group_key(mount) ==
    IF mount.fs_type = "lustre"
    THEN <<"l", "u", "s", "t", "r", "e", "_">> \o mount.fs \o <<"_">>
         \o mount.mount_point
    ELSE Decimal(mount.dev.major) \o <<":">> \o Decimal(mount.dev.minor)

\* The keys of filesystem_map, and the Vec pushed under a key: the
\* records with that key in input order.
GroupKeys(ms) == {group_key(ms[k]) : k \in 1..Len(ms)}

Group(ms, key) == SelectSeq(ms, LAMBDA m : group_key(m) = key)

\* The orders in which iterating a HashMap with key set S may yield the
\* keys.
IterationOrders(S) ==
    {p \in [1..Cardinality(S) -> S] :
        \A i, j \in 1..Cardinality(S) : i # j => p[i] # p[j]}

\* The closure given to sort_by in choose_representative_mount, on the
\* two paths: -1 for Less, 0 for Equal, 1 for Greater.
path_cmp(a_path, b_path) ==
    IF a_path = <<"/">> THEN -1
    ELSE IF b_path = <<"/">> THEN 1
    ELSE IF Len(a_path) < Len(b_path) THEN -1
    ELSE IF Len(a_path) > Len(b_path) THEN 1
    ELSE StrCmp(a_path, b_path)

\* The closure a sort_by call is given, by name; defined below, after the
\* closures of run().
RECURSIVE Compare(_, _, _)

\* slice::sort_by on a short slice: insertion sort, each element moved
\* left past the elements it is Less than.
RECURSIVE InsertBy(_, _, _)
InsertBy(by, sorted, x) ==
    IF sorted = <<>> THEN <<x>>
    ELSE LET last == sorted[Len(sorted)] IN
         IF Compare(by, x, last) = -1
         THEN InsertBy(by, SubSeq(sorted, 1, Len(sorted) - 1), x) \o <<last>>
         ELSE sorted \o <<x>>

RECURSIVE sort_by(_, _)
sort_by(by, ms) ==
    IF ms = <<>> THEN <<>>
    ELSE InsertBy(by, sort_by(by, SubSeq(ms, 1, Len(ms) - 1)), ms[Len(ms)])

FilesystemSummary ==
    <<"f", "i", "l", "e", "s", "y", "s", "t", "e", "m", "_",
      "s", "u", "m", "m", "a", "r", "y">>

\* choose_representative_mount
choose_representative_mount(ms) ==
    LET summaries == {k \in 1..Len(ms) : ms[k].fs = FilesystemSummary} IN
    IF summaries # {}
    THEN ms[CHOOSE k \in summaries : \A j \in summaries : k <= j]
    ELSE sort_by("path", ms)[1]

\* HashMap::insert
MapInsert(map, key, value) ==
    [k \in (DOMAIN map) \cup {key} |-> IF k = key THEN value ELSE map[k]]

\* The body of `for (_group_key, group) in filesystem_map`.
DedupGroup(sofar, group) ==
    IF Len(group) = 1
    THEN IF group[1].fs_type = "lustre"
         THEN [deduplicated |-> sofar.deduplicated \o group,
               mount_points_map |-> sofar.mount_points_map]
         ELSE [deduplicated |-> sofar.deduplicated \o group,
               mount_points_map |->
                   MapInsert(sofar.mount_points_map, extract_fsname(group[1]),
                             <<group[1].mount_point>>)]
    ELSE LET mount_points == [k \in 1..Len(group) |-> group[k].mount_point]
             representative == choose_representative_mount(group)
         IN  [deduplicated |-> Append(sofar.deduplicated, representative),
              mount_points_map |->
                  MapInsert(sofar.mount_points_map,
                            extract_fsname(representative), mount_points)]

RECURSIVE DedupFrom(_, _, _, _)
DedupFrom(ms, order, k, sofar) ==
    IF k > Len(order) THEN sofar
    ELSE DedupFrom(ms, order, k + 1, DedupGroup(sofar, Group(ms, order[k])))

\* check_duplicate, the map iterated in the given order.
check_duplicate(ms, order) ==
    DedupFrom(ms, order, 1,
              [deduplicated |-> <<>>, mount_points_map |-> <<>>])

\* A record of the mount list: every field check_duplicate does not read
\* is held fixed.
ListedMount(fs_type, minor, fs, mount_point) ==
    [id |-> 0,
     dev |-> IF fs_type = "lustre" THEN [major |-> 0, minor |-> 0]
             ELSE [major |-> 8, minor |-> minor],
     fs |-> fs,
     fs_type |-> fs_type,
     mount_point |-> mount_point,
     bound |-> FALSE,
     remote |-> fs_type = "lustre",
     stats |-> OkStats(4096, 4, 2, 1, NoInodes),
     disk |-> fs_type # "lustre",
     fs_label |-> NoStr,
     uuid |-> NoStr,
     part_uuid |-> NoStr]

\* Ordinary records: two devices, the root, two paths of one length and a
\* longer one, a plain source name and the name "filesystem_summary".
OrdinaryShapes ==
    {ListedMount("ext4", minor, fs, mp) :
        minor \in {1, 2},
        fs \in {<<"d">>, FilesystemSummary},
        mp \in {<<"/">>, <<"/", "a">>, <<"/", "b">>, <<"/", "a", "b">>}}

\* Lustre records, all with the synthetic device 0:0: one name mounted at
\* two places, and a name and place whose key reads the same as another's.
LustreShapes ==
    {ListedMount("lustre", 0, <<"a">>, <<"/", "c">>),
     ListedMount("lustre", 0, <<"a">>, <<"/", "b", "_", "/", "c">>),
     ListedMount("lustre", 0, <<"a", "_", "/", "b">>, <<"/", "c">>)}

\* The mount lists: the k-th record carries mount id k.
MountLists ==
    {[k \in 1..Len(shapes) |-> [shapes[k] EXCEPT !.id = k]] :
        shapes \in SeqsUpTo(OrdinaryShapes \cup LustreShapes, MaxMounts)}

DedupInit ==
    /\ DiscIdle
    /\ RunIdle
    /\ fpc = "ready"
    /\ arg \in MountLists
    /\ res = <<>>

\* One call check_duplicate(arg).
CallCheckDuplicate ==
    /\ fpc = "ready"
    /\ \E order \in IterationOrders(GroupKeys(arg)) :
           res' = check_duplicate(arg, order)
    /\ fpc' = "returned"
    /\ UNCHANGED arg
    /\ UNCHANGED <<dvars, rvars>>

SpecDedup == DedupInit /\ [][CallCheckDuplicate]_vars

----------------------------------------------------------------------------
(* Claims about deduplication *)

\* The ordinary records of a list that carry device id d.
OrdinaryGroup(ms, d) ==
    {k \in 1..Len(ms) : ms[k].fs_type # "lustre" /\ ms[k].dev = d}

\* Path p is the preferred one among those of the records G of ms: the
\* root if some member has it, otherwise the shortest, the
\* lexicographically smallest among the shortest.
PreferredPath(ms, G, p) ==
    IF \E k \in G : ms[k].mount_point = <<"/">>
    THEN p = <<"/">>
    ELSE /\ \E k \in G : ms[k].mount_point = p
         /\ \A k \in G :
               \/ Len(p) < Len(ms[k].mount_point)
               \/ /\ Len(p) = Len(ms[k].mount_point)
                  /\ StrCmp(p, ms[k].mount_point) <= 0

\* C4 as the specification states it: for every group of ordinary records
\* sharing a device id, check_duplicate outputs exactly one representative
\* of the group, and its mount path is the root path if some member has
\* it, otherwise the shortest path, ties resolved lexicographically.
C4_Original ==
    fpc = "returned" =>
        \A k \in 1..Len(arg) :
            arg[k].fs_type # "lustre" =>
                LET G == OrdinaryGroup(arg, arg[k].dev)
                    R == OrdinaryGroup(res.deduplicated, arg[k].dev)
                IN  /\ Cardinality(R) = 1
                    /\ \A j \in R :
                          /\ \E i \in G : arg[i] = res.deduplicated[j]
                          /\ PreferredPath(arg, G,
                                           res.deduplicated[j].mount_point)

\* C5 as the specification states it: every record of type lustre passed
\* to check_duplicate appears in its output.
C5_Original ==
    fpc = "returned" =>
        \A k \in 1..Len(arg) :
            arg[k].fs_type = "lustre" =>
                \E j \in 1..Len(res.deduplicated) :
                    res.deduplicated[j] = arg[k]

----------------------------------------------------------------------------
(* The functions run() calls: lib.rs, col.rs *)

\* str::find: the byte offset of the first occurrence of p in s, -1 for
\* None.
Find(s, p) ==
    LET at == {i \in 0..(Len(s) - Len(p)) : SubSeq(s, i + 1, i + Len(p)) = p}
    IN  IF at = {} THEN -1 ELSE CHOOSE i \in at : \A j \in at : i <= j

DigitValue(c) == (CHOOSE i \in 1..10 : Digits[i] = c) - 1

RECURSIVE DigitsValue(_)
DigitsValue(s) ==
    IF s = <<>> THEN 0
    ELSE DigitsValue(SubSeq(s, 1, Len(s) - 1)) * 10 + DigitValue(s[Len(s)])

\* str::parse::<u32>(): an optional '+' and then one or more decimal
\* digits, the value within u32. Strings of at most 9 digits are drawn.
ParseU32(s) ==
    LET body == IF s # <<>> /\ Head(s) = "+" THEN Tail(s) ELSE s IN
    IF body # <<>> /\ Len(body) <= 9
       /\ \A k \in 1..Len(body) : \E d \in 1..10 : Digits[d] = body[k]
    THEN [ok |-> TRUE, v |-> DigitsValue(body)]
    ELSE [ok |-> FALSE, v |-> 0]

\* parse_lustre_component: Some((type, index)) from a name such as
\* "lustre-OST0001_UUID", None otherwise.
parse_lustre_component(name) ==
    LET none == [some |-> FALSE, type |-> <<>>, num |-> 0]
        dash_pos == Find(name, <<"-">>)
    IN  IF dash_pos = -1 THEN none
        ELSE LET after_dash == SubSeq(name, dash_pos + 2, Len(name))
                 underscore_pos == Find(after_dash, <<"_">>)
             IN  IF underscore_pos = -1 THEN none
                 ELSE LET component_part == SubSeq(after_dash, 1, underscore_pos)
                      IN  IF Len(component_part) < 7 THEN none
                          ELSE LET comp_type == SubSeq(component_part, 1, 3)
                                   num == ParseU32(SubSeq(component_part, 4,
                                                          Len(component_part)))
                               IN  IF num.ok
                                   THEN [some |-> TRUE, type |-> comp_type,
                                         num |-> num.v]
                                   ELSE none

IntCmp(a, b) == IF a < b THEN -1 ELSE IF a > b THEN 1 ELSE 0

\* The closure of the two topology sort_by calls of run(), on two records.
topology_cmp(a, b) ==
    LET a_name == a.fs
        b_name == b.fs
        a_is_client == a_name = FilesystemSummary
        b_is_client == b_name = FilesystemSummary
    IN  IF a_is_client /\ ~b_is_client THEN 1
        ELSE IF ~a_is_client /\ b_is_client THEN -1
        ELSE IF a_is_client /\ b_is_client THEN StrCmp(a_name, b_name)
        ELSE LET a_parts == parse_lustre_component(a_name)
                 b_parts == parse_lustre_component(b_name)
             IN  IF a_parts.some /\ b_parts.some
                 THEN IF a_parts.type = <<"M", "D", "T">>
                         /\ b_parts.type = <<"O", "S", "T">> THEN -1
                      ELSE IF a_parts.type = <<"O", "S", "T">>
                              /\ b_parts.type = <<"M", "D", "T">> THEN 1
                      ELSE IntCmp(a_parts.num, b_parts.num)
                 ELSE StrCmp(a_name, b_name)

\* Stats::size(): block size times block count
StatsSize(stats) == stats.bsize * stats.blocks

\* Col::Size.comparator() (col.rs)
size_cmp(a, b) ==
    IF has_stats(a) /\ has_stats(b)
    THEN IntCmp(StatsSize(a.stats), StatsSize(b.stats))
    ELSE IF has_stats(a) THEN 1
    ELSE IF has_stats(b) THEN -1
    ELSE 0

Compare(by, a, b) ==
    CASE by = "path" -> path_cmp(a.mount_point, b.mount_point)
      [] by = "topology" -> topology_cmp(a, b)
      [] OTHER -> size_cmp(a, b)

Reverse(ms) == [k \in 1..Len(ms) |-> ms[Len(ms) + 1 - k]]

\* Col::default_sort_col() and its default_sort_order() (col.rs)
DefaultSorting == [col |-> "Size", order |-> "Desc"]

\* The name Compare knows the comparator of a sort column by.
ColComparator(col) == IF col = "Size" THEN "size" ELSE "path"

\* Sorting::sort: sort by the column's comparator, then reverse when the
\* order is descending.
Sorting_sort(sorting, ms) ==
    IF sorting.order = "Desc"
    THEN Reverse(sort_by(ColComparator(sorting.col), ms))
    ELSE sort_by(ColComparator(sorting.col), ms)

\* is_lustre_server_component
is_lustre_server_component(mount_point) ==
    LET has(p) == ContainsStr(mount_point, p) IN
    \/ has(<<"-", "o", "s", "t">>)
    \/ has(<<"-", "m", "d", "t">>)
    \/ has(<<"-", "m", "d", "s">>)
    \/ /\ has(<<"o", "s", "t">>)
       /\ (has(<<"l", "u", "s", "t", "r", "e">>)
             \/ has(<<"s", "c", "r", "a", "t", "c", "h">>))
    \/ /\ has(<<"m", "d", "t">>)
       /\ (has(<<"l", "u", "s", "t", "r", "e">>)
             \/ has(<<"s", "c", "r", "a", "t", "c", "h">>))

\* Option<u64>, Option<u32>, Option<u16>
NoInt == [some |-> FALSE, v |-> 0]
SomeInt(v) == [some |-> TRUE, v |-> v]

\* One branch of extract_component_info, for the family whose tag
\* ("[MDT:" or "[OST:") the path contains: the slice
\* mount_point[start + 5..end] panics when it starts past its end.
ComponentInfoOf(mount_point, family, tag) ==
    LET start == Find(mount_point, tag)
        end == Find(mount_point, <<"]">>)
    IN  IF end = -1
        THEN [panic |-> FALSE, type |-> SomeStr(family), index |-> NoInt]
        ELSE IF start + 5 > end
        THEN [panic |-> TRUE, type |-> NoStr, index |-> NoInt]
        ELSE LET parsed == ParseU32(SubSeq(mount_point, start + 6, end))
             IN  [panic |-> FALSE, type |-> SomeStr(family),
                  index |-> IF parsed.ok THEN SomeInt(parsed.v) ELSE NoInt]

\* extract_component_info
extract_component_info(mount_point) ==
    IF ContainsStr(mount_point, <<"[", "M", "D", "T", ":">>)
    THEN ComponentInfoOf(mount_point, <<"M", "D", "T">>,
                         <<"[", "M", "D", "T", ":">>)
    ELSE IF ContainsStr(mount_point, <<"[", "O", "S", "T", ":">>)
    THEN ComponentInfoOf(mount_point, <<"O", "S", "T">>,
                         <<"[", "O", "S", "T", ":">>)
    ELSE IF ~ContainsChar(mount_point, "[")
    THEN [panic |-> FALSE, type |-> SomeStr(<<"C", "L", "I", "E", "N", "T">>),
          index |-> NoInt]
    ELSE [panic |-> FALSE, type |-> NoStr, index |-> NoInt]

\* What Layout::with_path and its four getters answer: each an Err or a
\* value.
LayoutErr ==
    [ok |-> FALSE, stripe_count |-> NoInt, stripe_size |-> NoInt,
     pool_name |-> NoStr, mirror_count |-> NoInt]

LayoutOf(stripe_count, stripe_size, pool_name, mirror_count) ==
    [ok |-> TRUE, stripe_count |-> stripe_count, stripe_size |-> stripe_size,
     pool_name |-> pool_name, mirror_count |-> mirror_count]

\* collect_lustre_layout_info
collect_lustre_layout_info(mount_point, layout) ==
    LET comp == extract_component_info(mount_point)
        client == ~ContainsChar(mount_point, "[")
        stripe_count ==
            IF layout.ok /\ layout.stripe_count.some
               /\ layout.stripe_count.v > 0 /\ layout.stripe_count.v <= 1000
            THEN layout.stripe_count ELSE NoInt
        stripe_size ==
            IF layout.ok /\ layout.stripe_size.some
               /\ layout.stripe_size.v >= 65536
               /\ layout.stripe_size.v <= 1024 * 1024 * 1024
            THEN layout.stripe_size ELSE NoInt
        pool_name ==
            IF layout.ok /\ layout.pool_name.some /\ layout.pool_name.v # <<>>
            THEN layout.pool_name ELSE SomeStr(<<>>)
        mirror_count ==
            IF layout.ok /\ layout.mirror_count.some
               /\ layout.mirror_count.v > 0
            THEN layout.mirror_count ELSE SomeInt(1)
        mock == ~stripe_count.some /\ ~stripe_size.some
    IN  [panic |-> comp.panic,
         component_type |-> comp.type,
         component_index |-> comp.index,
         stripe_count |-> IF ~client THEN NoInt
                          ELSE IF mock THEN SomeInt(2) ELSE stripe_count,
         stripe_size |-> IF ~client THEN NoInt
                         ELSE IF mock THEN SomeInt(1048576) ELSE stripe_size,
         pool_name |-> IF client THEN pool_name ELSE NoStr,
         mirror_count |-> IF client THEN mirror_count ELSE NoInt,
         lustre_version |-> IF client
                            THEN SomeStr(<<"2", ".", "1", "5", ".", "x">>)
                            ELSE NoStr]

\* convert_lustre_mount_to_lfs_mount, the Mount it returns: the
\* statistics are always Ok, the disk always None.
convert_lustre_mount_to_lfs_mount(lustre_mount) ==
    [lustre_mount EXCEPT !.stats.kind = "ok", !.disk = FALSE]

\* WritesInfo with the aggregate left out.
WritesInfoComponentsOnly(lustre_mount) ==
    lustre_mount.fs_type = "lustre" /\ ContainsChar(lustre_mount.mount_point, "[")

\* Line 553: the records convert_lustre_mount_to_lfs_mount calls
\* set_lustre_info for.
WritesInfo(lustre_mount) == lustre_mount.fs_type = "lustre"

\* convert_lustre_mount_to_lfs_mount over the discovered list, the table
\* it leaves behind: one set_lustre_info per record of type lustre, in
\* list order.
RECURSIVE InfoAfter(_, _, _, _)
InfoAfter(table, lms, k, layout) ==
    IF k > Len(lms) THEN table
    ELSE InfoAfter(
            IF WritesInfo(lms[k])
            THEN MapInsert(table, lms[k].mount_point,
                           collect_lustre_layout_info(lms[k].mount_point, layout))
            ELSE table,
            lms, k + 1, layout)

\* replace_lustre_client_mounts
RECURSIVE replace_lustre_client_mounts(_, _)
replace_lustre_client_mounts(ms, lustre_mounts) ==
    IF lustre_mounts = <<>> THEN ms
    ELSE LET lustre_mount == Head(lustre_mounts)
             hits == {k \in 1..Len(ms) :
                         /\ ms[k].fs_type = "lustre"
                         /\ ms[k].mount_point = lustre_mount.mount_point}
             next ==
                 IF is_lustre_component_mount(lustre_mount) THEN ms
                 ELSE IF hits # {}
                 THEN [ms EXCEPT ![CHOOSE k \in hits : \A j \in hits : k <= j]
                                     = lustre_mount]
                 ELSE Append(ms, lustre_mount)
         IN  replace_lustre_client_mounts(next, Tail(lustre_mounts))

\* Path::starts_with on absolute paths: base is a prefix of path ending at
\* a component boundary.
PathStartsWith(path, base) ==
    \/ base = <<"/">>
    \/ path = base
    \/ /\ Len(path) > Len(base)
       /\ SubSeq(path, 1, Len(base)) = base
       /\ path[Len(base) + 1] = "/"

\* Filter::filter of the filter module: the default filter keeps every
\* row; an expression keeps the rows it holds for, or fails to evaluate.
Filter_filter(filter, ms) ==
    CASE filter = "none" -> [ok |-> TRUE, v |-> ms]
      [] filter = "type=ext4" ->
            [ok |-> TRUE, v |-> SelectSeq(ms, LAMBDA m : m.fs_type = "ext4")]
      [] OTHER -> [ok |-> FALSE, v |-> <<>>]

----------------------------------------------------------------------------
(* run(): lib.rs *)

\* The longest mount catalog drawn.
MaxCatalog == 2

\* Catalog rows: the root filesystem, a larger data filesystem, a bind
\* mount of the root's device, a Lustre client mount at the discovered
\* mount directory and a Lustre server target.
CatalogShapes ==
    {ListedMount("ext4", 1, <<"d">>, <<"/">>),
     [ListedMount("ext4", 2, <<"e">>, <<"/", "a">>) EXCEPT !.stats.blocks = 8],
     [ListedMount("ext4", 1, <<"d">>, <<"/", "a", "b">>) EXCEPT !.bound = TRUE],
     ListedMount("lustre", 0, <<"1", ":", "/", "f", "s">>, Mntdir),
     ListedMount("lustre", 0, <<"o">>, <<"/", "-", "o", "s", "t">>)}

\* lfs_core::read_mounts: an error, or the catalog: up to MaxCatalog
\* different rows in any order, the k-th with mount id k.
Catalogs ==
    {[ok |-> FALSE, v |-> <<>>]} \cup
    {[ok |-> TRUE, v |-> [k \in 1..Len(shapes) |-> [shapes[k] EXCEPT !.id = k]]] :
        shapes \in {q \in SeqsUpTo(CatalogShapes, MaxCatalog) :
                        \A i, j \in 1..Len(q) : i # j => q[i] # q[j]}}

\* The records of one discovered instance: its metadata target, an object
\* target that answered, one that is inactive, and the aggregate.
DiscoveredMdt0 ==
    create_lustre_component_mount(Mntdir, Fsname, StatA, TargetUuid("MDT", 0), "MDT", 0, 0)

DiscoveredOst0 ==
    create_lustre_component_mount(Mntdir, Fsname, StatA, TargetUuid("OST", 0), "OST", 0, 0)

DiscoveredOst1 ==
    create_lustre_component_mount(Mntdir, Fsname, ZeroStat, TargetUuid("OST", 1), "OST", 1, ENODATA)

\* An object target that answered with an empty uuid buffer: its name is
\* the "OST:0001" of create_lustre_component_mount.
DiscoveredOst1NoUuid ==
    create_lustre_component_mount(Mntdir, Fsname, StatB, <<>>, "OST", 1, 0)

DiscoveredClient ==
    ClientMount(Mntdir, Fsname,
                [AccInit EXCEPT !.total_blocks = 4, !.total_bfree = 2,
                                !.total_bavail = 1, !.total_files = 3,
                                !.total_ffree = 2, !.ost_count = 1])

\* MountStats::discover_mounts: an error, or the discovered records.
Discoveries ==
    {[ok |-> FALSE, v |-> <<>>],
     [ok |-> TRUE, v |-> <<>>],
     [ok |-> TRUE, v |-> <<DiscoveredMdt0, DiscoveredOst0, DiscoveredOst1,
                           DiscoveredClient>>],
     [ok |-> TRUE, v |-> <<DiscoveredMdt0, DiscoveredOst0>>],
     [ok |-> TRUE, v |-> <<DiscoveredMdt0, DiscoveredOst1NoUuid>>],
     [ok |-> TRUE, v |-> <<DiscoveredClient>>]}

Systems == [catalog : Catalogs, discovered : Discoveries]

\* The layout answers drawn when run() converts discovered records: the
\* layout is queried for the records that are not component records.
RunLayouts(lms) ==
    IF \E k \in 1..Len(lms) :
          lms[k].fs_type = "lustre" /\ ~ContainsChar(lms[k].mount_point, "[")
    THEN {LayoutErr,
          LayoutOf(SomeInt(4), SomeInt(65536), SomeStr(<<"p">>), SomeInt(2))}
    ELSE {LayoutErr}

\* args.path and what the system answers about it: fs::metadata (an
\* error, or the device id) and LustrePath::parse.
NoPath ==
    [some |-> FALSE, path |-> <<>>, md_ok |-> FALSE,
     dev |-> [major |-> 0, minor |-> 0], is_lustre |-> FALSE]

PathOn(path, dev, is_lustre) ==
    [some |-> TRUE, path |-> path, md_ok |-> TRUE, dev |-> dev,
     is_lustre |-> is_lustre]

PathUnreadable(path) ==
    [some |-> TRUE, path |-> path, md_ok |-> FALSE,
     dev |-> [major |-> 0, minor |-> 0], is_lustre |-> FALSE]

Paths ==
    {NoPath,
     PathOn(<<"/", "a", "/", "x">>, [major |-> 8, minor |-> 2], FALSE),
     PathOn(Mntdir \o <<"/", "x">>, [major |-> 0, minor |-> 0], TRUE),
     PathUnreadable(<<"/", "n">>)}

\* The command lines: the three that return at once, and the ones that
\* list mounts.
ArgsOf(early, all, path, filter, format) ==
    [early |-> early, all |-> all, path |-> path, sort |-> DefaultSorting,
     filter |-> filter, csv |-> format = "csv", json |-> format = "json",
     cols |-> "default"]

CommandLines ==
    {ArgsOf(e, FALSE, NoPath, "none", "table") :
        e \in {"version", "help", "list_cols"}}
    \cup
    {ArgsOf("none", all, path, filter, format) :
        all \in BOOLEAN, path \in Paths,
        filter \in {"none", "type=ext4", "bad"},
        format \in {"csv", "json", "table"}}

RunInit ==
    /\ DiscIdle
    /\ FnIdle
    /\ rpc = "start"
    /\ args \in CommandLines
    /\ sys \in Systems
    /\ rows = <<>>
    /\ has_lustre_mounts = FALSE
    /\ final_args = <<>>
    /\ is_lustre_only_view = FALSE
    /\ mount_points_map = <<>>
    /\ LUSTRE_INFO = <<>>
    /\ out = <<>>
    /\ stages = <<>>

\* One write to a stream: what was written and the rows it shows.
Written(sink, shown) == [sink |-> sink, rows |-> shown]

\* Lines 99-113: the command lines that print and return.
ParseArgs ==
    /\ rpc = "start"
    /\ IF args.early # "none"
       THEN /\ out' = Append(out, Written(args.early, <<>>))
            /\ rpc' = "exit"
       ELSE /\ out' = out
            /\ rpc' = "read_mounts"
    /\ stages' = Append(stages, "ParseArgs")
    /\ UNCHANGED <<args, sys, rows, has_lustre_mounts, final_args,
                   is_lustre_only_view, mount_points_map, LUSTRE_INFO>>
    /\ UNCHANGED <<dvars, fvars>>

\* Lines 118-132: read the catalog, or report and return; drop the
\* server targets among its lustre rows.
ReadMounts ==
    /\ rpc = "read_mounts"
    /\ IF sys.catalog.ok
       THEN /\ rows' = SelectSeq(sys.catalog.v,
                                 LAMBDA m : IF m.fs_type = "lustre"
                                            THEN ~is_lustre_server_component(m.mount_point)
                                            ELSE TRUE)
            /\ out' = out
            /\ rpc' = "discover"
       ELSE /\ rows' = rows
            /\ out' = Append(out, Written("stderr", <<>>))
            /\ rpc' = "exit"
    /\ stages' = Append(stages, "ReadMounts")
    /\ UNCHANGED <<args, sys, has_lustre_mounts, final_args,
                   is_lustre_only_view, mount_points_map, LUSTRE_INFO>>
    /\ UNCHANGED <<dvars, fvars>>

\* The discovered list run() works with: empty when discovery failed.
lustre_mounts == IF sys.discovered.ok THEN sys.discovered.v ELSE <<>>

converted_lustre_mounts ==
    [k \in 1..Len(lustre_mounts) |->
        convert_lustre_mount_to_lfs_mount(lustre_mounts[k])]

\* Lines 146-152: the component records pushed, in list order.
PushedComponents == SelectSeq(converted_lustre_mounts, is_lustre_component_mount)

\* Lines 134-156: discover, convert (filling the LUSTRE_INFO table),
\* replace the client rows, push the component records and compute
\* has_lustre_mounts.
DiscoverAndMerge ==
    /\ rpc = "discover"
    /\ \E layout \in RunLayouts(lustre_mounts) :
         LET table == InfoAfter(LUSTRE_INFO, lustre_mounts, 1, layout)
             merged == replace_lustre_client_mounts(rows, converted_lustre_mounts)
                       \o PushedComponents
         IN  IF \E p \in DOMAIN table : table[p].panic
             THEN /\ rpc' = "panicked"
                  /\ UNCHANGED <<rows, has_lustre_mounts, LUSTRE_INFO>>
             ELSE /\ rpc' = "restrict"
                  /\ LUSTRE_INFO' = table
                  /\ rows' = merged
                  /\ has_lustre_mounts' =
                        IF PushedComponents # <<>> THEN TRUE
                        ELSE \E k \in 1..Len(merged) : merged[k].fs_type = "lustre"
    /\ out' = IF sys.discovered.ok THEN out
              ELSE Append(out, Written("stderr", <<>>))
    /\ stages' = Append(stages, "DiscoverAndMerge")
    /\ UNCHANGED <<args, sys, final_args, is_lustre_only_view, mount_points_map>>
    /\ UNCHANGED <<dvars, fvars>>

\* The predicate of the retain at line 160 with the type test dropped.
KeptInClusterViewAny(m) == TRUE

\* The predicate of the retain at line 160.
KeptInClusterView(m) == m.fs_type = "lustre"

\* Lines 158-200: without --all, keep the lustre rows in topology order
\* when there are lustre mounts, the normal rows in the active sort
\* otherwise; with --all, sort everything.
RestrictAndSort ==
    /\ rpc = "restrict"
    /\ rows' =
         IF ~args.all
         THEN IF has_lustre_mounts
              THEN sort_by("topology", SelectSeq(rows, KeptInClusterView))
              ELSE Sorting_sort(args.sort, SelectSeq(rows, is_normal))
         ELSE Sorting_sort(args.sort, rows)
    /\ rpc' = "final_args"
    /\ stages' = Append(stages, "RestrictAndSort")
    /\ UNCHANGED <<args, sys, has_lustre_mounts, final_args,
                   is_lustre_only_view, mount_points_map, LUSTRE_INFO, out>>
    /\ UNCHANGED <<dvars, fvars>>

AllLustre(ms) == \A k \in 1..Len(ms) : ms[k].fs_type = "lustre"

\* Lines 202-221: the column set of final_args; the default set becomes
\* the lustre set when only lustre rows are left.
FinalArgs ==
    /\ rpc = "final_args"
    /\ final_args' =
         IF has_lustre_mounts /\ ~args.all /\ AllLustre(rows)
            /\ args.cols = "default"
         THEN [args EXCEPT !.cols = "fs+used+use+free+size+fsname"]
         ELSE args
    /\ rpc' = "path"
    /\ stages' = Append(stages, "FinalArgs")
    /\ UNCHANGED <<args, sys, rows, has_lustre_mounts, is_lustre_only_view,
                   mount_points_map, LUSTRE_INFO, out>>
    /\ UNCHANGED <<dvars, fvars>>

\* fs::metadata(path) with every path readable.
fs_metadata_readable(p) == [ok |-> TRUE, dev |-> p.dev]

\* fs::metadata(path) at line 224: an error, or the metadata, of which
\* run() uses the device id.
fs_metadata(p) == [ok |-> p.md_ok, dev |-> p.dev]

\* The predicates of the retains at lines 241 and 243 with no test left.
KeptByPathAny(p, dev, m) == TRUE

\* The predicates of the retains at lines 241 and 243: for a lustre path
\* the lustre rows whose mount point is a prefix of it, otherwise the
\* rows of its device.
KeptByPath(p, dev, m) ==
    IF p.is_lustre
    THEN m.fs_type = "lustre" /\ PathStartsWith(p.path, m.mount_point)
    ELSE m.dev = dev

\* Lines 223-245: with a path, read its metadata (or report and return)
\* and keep the rows of its filesystem.
PathFilter ==
    /\ rpc = "path"
    /\ IF ~args.path.some
       THEN /\ rows' = rows
            /\ out' = out
            /\ rpc' = "sort"
       ELSE LET md == fs_metadata(args.path) IN
            IF ~md.ok
            THEN /\ rows' = rows
                 /\ out' = Append(out, Written("stderr", <<>>))
                 /\ rpc' = "exit"
            ELSE /\ rows' = SelectSeq(rows, LAMBDA m :
                                        KeptByPath(args.path, md.dev, m))
                 /\ out' = out
                 /\ rpc' = "sort"
    /\ stages' = Append(stages, "PathFilter")
    /\ UNCHANGED <<args, sys, has_lustre_mounts, final_args,
                   is_lustre_only_view, mount_points_map, LUSTRE_INFO>>
    /\ UNCHANGED <<dvars, fvars>>

\* Lines 247-252: decide whether the view is lustre-only; sort if not.
Sort ==
    /\ rpc = "sort"
    /\ is_lustre_only_view' = (has_lustre_mounts /\ ~args.all /\ AllLustre(rows))
    /\ rows' = IF ~is_lustre_only_view'
               THEN Sorting_sort(final_args.sort, rows)
               ELSE rows
    /\ rpc' = "filter"
    /\ stages' = Append(stages, "Sort")
    /\ UNCHANGED <<args, sys, has_lustre_mounts, final_args,
                   mount_points_map, LUSTRE_INFO, out>>
    /\ UNCHANGED <<dvars, fvars>>

\* Where run() goes after the filter with deduplication left out.
AfterFilterSkipsDedup == "render"

\* Where run() goes after the filter succeeded (line 260): to
\* check_duplicate at line 264.
AfterFilter == "dedup"

\* Lines 254-260: the filter of final_args, or report and return.
Filter ==
    /\ rpc = "filter"
    /\ LET kept == Filter_filter(final_args.filter, rows) IN
       IF kept.ok
       THEN /\ rows' = kept.v
            /\ out' = out
            /\ rpc' = AfterFilter
       ELSE /\ rows' = rows
            /\ out' = Append(out, Written("stderr", <<>>))
            /\ rpc' = "exit"
    /\ stages' = Append(stages, "Filter")
    /\ UNCHANGED <<args, sys, has_lustre_mounts, final_args,
                   is_lustre_only_view, mount_points_map, LUSTRE_INFO>>
    /\ UNCHANGED <<dvars, fvars>>

\* Line 264: check_duplicate.
Deduplicate ==
    /\ rpc = "dedup"
    /\ \E order \in IterationOrders(GroupKeys(rows)) :
         LET d == check_duplicate(rows, order) IN
         /\ rows' = d.deduplicated
         /\ mount_points_map' = d.mount_points_map
    /\ rpc' = "reorder"
    /\ stages' = Append(stages, "Deduplicate")
    /\ UNCHANGED <<args, sys, has_lustre_mounts, final_args,
                   is_lustre_only_view, LUSTRE_INFO, out>>
    /\ UNCHANGED <<dvars, fvars>>

\* Lines 266-300: the topology order again when the view is lustre-only.
ReapplyClusterOrdering ==
    /\ rpc = "reorder"
    /\ IF is_lustre_only_view
       THEN /\ rows' = sort_by("topology", rows)
            /\ stages' = Append(stages, "ReapplyClusterOrdering")
       ELSE /\ rows' = rows
            /\ stages' = stages
    /\ rpc' = "render"
    /\ UNCHANGED <<args, sys, has_lustre_mounts, final_args,
                   is_lustre_only_view, mount_points_map, LUSTRE_INFO, out>>
    /\ UNCHANGED <<dvars, fvars>>

\* Lines 303-325: CSV, or JSON, or the hint when nothing is left, or the
\* table followed by the mount point summary when a filesystem has
\* several mount points.
Render ==
    /\ rpc = "render"
    /\ out' =
         IF final_args.csv THEN Append(out, Written("csv", rows))
         ELSE IF final_args.json THEN Append(out, Written("json", rows))
         ELSE IF rows = <<>> THEN Append(out, Written("hint", <<>>))
         ELSE IF \E n \in DOMAIN mount_points_map :
                    Len(mount_points_map[n]) > 1
         THEN out \o <<Written("table", rows), Written("summary", <<>>)>>
         ELSE Append(out, Written("table", rows))
    /\ rpc' = "exit"
    /\ stages' = Append(stages, "Render")
    /\ UNCHANGED <<args, sys, rows, has_lustre_mounts, final_args,
                   is_lustre_only_view, mount_points_map, LUSTRE_INFO>>
    /\ UNCHANGED <<dvars, fvars>>

RunNext ==
    \/ ParseArgs
    \/ ReadMounts
    \/ DiscoverAndMerge
    \/ RestrictAndSort
    \/ FinalArgs
    \/ PathFilter
    \/ Sort
    \/ Filter
    \/ Deduplicate
    \/ ReapplyClusterOrdering
    \/ Render

SpecRun == RunInit /\ [][RunNext]_vars

----------------------------------------------------------------------------
(* Claims about run() *)

\* The writes that hand rows to a renderer.
Renderings ==
    {k \in 1..Len(out) : out[k].sink \in {"csv", "json", "table"}}

\* The rows after the merge stage (lines 126-152), from what the system
\* answered.
MergedRows ==
    replace_lustre_client_mounts(
        SelectSeq(sys.catalog.v,
                  LAMBDA m : IF m.fs_type = "lustre"
                             THEN ~is_lustre_server_component(m.mount_point)
                             ELSE TRUE),
        converted_lustre_mounts)
    \o PushedComponents

\* No clustered storage is present: the catalog lists no lustre mount
\* and discovery finds nothing.
NoClusteredStorage ==
    /\ sys.catalog.ok
    /\ \A k \in 1..Len(sys.catalog.v) : sys.catalog.v[k].fs_type # "lustre"
    /\ lustre_mounts = <<>>

\* Scenario A: the catalog is two ordinary mounts with distinct device
\* ids and different sizes, and the command line is the default one.
ScenarioA ==
    /\ NoClusteredStorage
    /\ Len(sys.catalog.v) = 2
    /\ \A k \in 1..2 : is_normal(sys.catalog.v[k])
    /\ sys.catalog.v[1].dev # sys.catalog.v[2].dev
    /\ StatsSize(sys.catalog.v[1].stats) # StatsSize(sys.catalog.v[2].stats)
    /\ ~args.all /\ ~args.path.some /\ args.filter = "none"

\* C9 as the specification states it: when no clustered storage is
\* present the rows handed to the renderer are in the order of the active
\* sort, by default total size descending; in scenario A both rows appear
\* and the larger one comes first.
C9_Original ==
    \A k \in Renderings :
        (NoClusteredStorage /\ args.sort = DefaultSorting) =>
            /\ \A i, j \in 1..Len(out[k].rows) :
                  i < j => size_cmp(out[k].rows[i], out[k].rows[j]) >= 0
            /\ ScenarioA =>
                  /\ Len(out[k].rows) = 2
                  /\ \A c \in 1..2 : \E i \in 1..2 : out[k].rows[i] = sys.catalog.v[c]

\* C10: when show-all is absent, no specific path is requested and at
\* least one row of type lustre exists after the merge stage, every row
\* handed to the renderer has filesystem type lustre.
C10_ClusterOnlyView ==
    \A k \in Renderings :
        (/\ ~args.all
         /\ ~args.path.some
         /\ \E i \in 1..Len(MergedRows) : MergedRows[i].fs_type = "lustre")
        => \A i \in 1..Len(out[k].rows) : out[k].rows[i].fs_type = "lustre"

\* A default run over a catalog with a normal ordinary mount and lustre
\* present rendered a table of lustre rows only.
C10_Witness ==
    /\ ~args.all
    /\ ~args.path.some
    /\ \E i \in 1..Len(MergedRows) :
          MergedRows[i].fs_type # "lustre" /\ is_normal(MergedRows[i])
    /\ \E k \in Renderings :
          /\ out[k].sink = "table"
          /\ Len(out[k].rows) >= 2
          /\ \A i \in 1..Len(out[k].rows) : out[k].rows[i].fs_type = "lustre"

----------------------------------------------------------------------------
(* Discovery of an instance without metadata targets *)

\* The metadata-family query of the component loop returned ENODEV at
\* index 0.
NoMetadataTarget ==
    /\ native.mdt = <<>>
    /\ native.tail = ENODEV
    /\ qlog["mdt"] # <<>>

MdtRecords(ms) ==
    {k \in ComponentRecords(ms) : ms[k].dev.major = 1}

\* C19 as the specification states it: after ENODEV at metadata index 0
\* discovery has no metadata component record, has issued no other
\* metadata-family query, has enumerated the object family and has built
\* the aggregate.
C19_Original ==
    (NoMetadataTarget /\ dpc = "done") =>
        /\ MdtRecords(mounts) = {}
        /\ asked["MDT"][0] = 1
        /\ \A i \in 1..(Ceiling + 1) : asked["MDT"][i] = 0
        /\ qlog["ost"] # <<>>
        /\ Cardinality(AggregateRecords(mounts)) = 1

\* C19: after ENODEV at metadata index 0 the component loop of the
\* metadata family has issued that one query only, no metadata component
\* record is emitted and discovery does not fail; the object family is
\* enumerated from index 0; the aggregate is built when the aggregate
\* pass opened the mount directory, and that pass then asks the metadata
\* family once more at index 0.
C19_NoMetadataTargets ==
    NoMetadataTarget =>
        /\ qlog["mdt"] = <<0>>
        /\ dpc # "failed"
        /\ MdtRecords(mounts) = {}
        /\ \A i \in 1..(Ceiling + 1) : asked["MDT"][i] = 0
        /\ dpc = "done" =>
              /\ qlog["ost"] # <<>> /\ qlog["ost"][1] = 0
              /\ Cardinality(AggregateRecords(mounts)) =
                    IF qlog["client_ost"] # <<>> THEN 1 ELSE 0
              /\ qlog["client_mdt"] =
                    IF qlog["client_ost"] # <<>> THEN <<0>> ELSE <<>>
              /\ asked["MDT"][0] = 1 + Len(qlog["client_mdt"])

\* Discovery of an instance with no metadata target and an object target
\* ended with the object target's record and the aggregate.
C19_Witness ==
    /\ NoMetadataTarget
    /\ dpc = "done"
    /\ native.ost # <<>> /\ native.ost[1] = "active_a"
    /\ ComponentRecords(mounts) # {}
    /\ Cardinality(AggregateRecords(mounts)) = 1
    /\ asked["MDT"][0] = 2

----------------------------------------------------------------------------
(* is_normal on every record *)

\* C18: is_normal returns true for every clustered record; for any other
\* record it returns true if and only if the record has statistics or is
\* unreachable, and is disk-backed or allow-listed or remote, and is not
\* a bind mount, and is not of the excluded type.
C18_IsNormalIff ==
    fpc = "returned" =>
        IF Clustered(arg) THEN res = TRUE
        ELSE res = TRUE <=> /\ (has_stats(arg) \/ is_unreachable(arg))
                            /\ (arg.disk \/ AllowListed(arg) \/ arg.remote)
                            /\ ~arg.bound
                            /\ ~Excluded(arg)

\* An unreachable remote mount without a disk was judged normal, and the
\* same call on a bind mount would not be.
C18_Witness ==
    /\ fpc = "returned"
    /\ ~Clustered(arg) /\ ~AllowListed(arg) /\ ~Excluded(arg)
    /\ is_unreachable(arg) /\ arg.remote /\ ~arg.disk /\ ~arg.bound
    /\ res = TRUE
    /\ ~is_normal([arg EXCEPT !.bound = TRUE])

----------------------------------------------------------------------------
(* Claims about the order of the cluster-only view *)

\* The family and index of a component row, as
\* create_lustre_component_mount records them in its device id.
RowFamily(m) == IF m.dev.major = 1 THEN "MDT" ELSE "OST"
RowIndex(m) == m.dev.minor

\* C11 as the specification states it: whenever the final view is
\* lustre-only, no aggregate/client row (a lustre row that is not a
\* component row) is rendered before a component row.
C11_Original ==
    \A k \in Renderings :
        is_lustre_only_view =>
            \A i, j \in 1..Len(out[k].rows) :
                i < j => ~(/\ ~is_lustre_component_mount(out[k].rows[i])
                           /\ is_lustre_component_mount(out[k].rows[j]))

\* C12 as the specification states it: whenever the final view is
\* lustre-only, no object-target row is rendered before a metadata-target
\* row, and rows of one family are rendered by index ascending.
C12_Original ==
    \A k \in Renderings :
        is_lustre_only_view =>
            \A i, j \in 1..Len(out[k].rows) :
                (/\ i < j
                 /\ is_lustre_component_mount(out[k].rows[i])
                 /\ is_lustre_component_mount(out[k].rows[j]))
                => /\ ~(/\ RowFamily(out[k].rows[i]) = "OST"
                        /\ RowFamily(out[k].rows[j]) = "MDT")
                   /\ RowFamily(out[k].rows[i]) = RowFamily(out[k].rows[j])
                        => RowIndex(out[k].rows[i]) <= RowIndex(out[k].rows[j])

----------------------------------------------------------------------------
(* Claims about the stages of run() *)

Last(q) == q[Len(q)]

\* run() reached the renderers.
Rendered == \E k \in 1..Len(stages) : stages[k] = "Render"

\* The steps of a run that reaches the renderers, in the order of the
\* statements of run().
StepsOfRun(cluster_only) ==
    <<"ParseArgs", "ReadMounts", "DiscoverAndMerge", "RestrictAndSort",
      "FinalArgs", "PathFilter", "Sort", "Filter", "Deduplicate">>
    \o (IF cluster_only THEN <<"ReapplyClusterOrdering">> ELSE <<>>)
    \o <<"Render">>

\* The stages the specification names in its pipeline.
NamedStages ==
    {"PathFilter", "Deduplicate", "ReapplyClusterOrdering", "Filter", "Render"}

C14_Original ==
    (/\ Rendered
     /\ ~args.all
     /\ \E i \in 1..Len(MergedRows) : MergedRows[i].fs_type = "lustre"
     /\ args.path.some /\ args.path.md_ok /\ ~args.path.is_lustre
     /\ \E i \in 1..Len(MergedRows) :
           /\ MergedRows[i].fs_type # "lustre"
           /\ MergedRows[i].dev = args.path.dev)
    => \E k \in Renderings :
          /\ out[k].rows # <<>>
          /\ \A i \in 1..Len(out[k].rows) :
                /\ out[k].rows[i].fs_type # "lustre"
                /\ out[k].rows[i].dev = args.path.dev

\* The path of the command line can be read and lies on no row of the
\* merged list: no row of its device, or for a lustre path no lustre row
\* whose mount point is a prefix of it.
PathOnNoMount ==
    /\ sys.catalog.ok
    /\ args.path.some /\ args.path.md_ok
    /\ \A i \in 1..Len(MergedRows) :
          IF args.path.is_lustre
          THEN ~(/\ MergedRows[i].fs_type = "lustre"
                 /\ PathStartsWith(args.path.path, MergedRows[i].mount_point))
          ELSE MergedRows[i].dev # args.path.dev

\* C15 as the specification states it: a path on no known mount ends the
\* run at the path stage with an error, and nothing is rendered.
C15_Original ==
    (PathOnNoMount /\ args.filter = "none" /\ rpc = "exit")
    => /\ Last(stages) = "PathFilter"
       /\ Last(out).sink = "stderr"
       /\ Renderings = {}

\* C15: a readable path on no known mount is no error: the run goes on
\* past the path stage with no row left, and if it reaches the renderers
\* the CSV and JSON sinks are handed no row and the table sink is replaced
\* by the hint.
C15_UnmatchedPath ==
    PathOnNoMount
    => /\ rpc = "exit" => Last(stages) # "PathFilter"
       /\ rpc \in {"sort", "filter", "dedup", "reorder", "render"} => rows = <<>>
       /\ \A k \in Renderings : out[k].rows = <<>>
       /\ Rendered => Last(out).sink = (IF final_args.csv THEN "csv"
                                        ELSE IF final_args.json THEN "json"
                                        ELSE "hint")

\* A run over a catalog with rows, asked for a readable path on none of
\* them, ended with the hint.
C15_Witness ==
    /\ PathOnNoMount
    /\ MergedRows # <<>>
    /\ Rendered
    /\ Last(out).sink = "hint"

\* C16: if the path of the command line fails to stat, the run writes an
\* error and stops there: no sort, filter, deduplication or rendering
\* step follows, and nothing but error messages is ever written.
C16_StatFailureStops ==
    (/\ args.path.some /\ ~args.path.md_ok
     /\ \E k \in 1..Len(stages) : stages[k] = "PathFilter")
    => /\ rpc = "exit"
       /\ Last(stages) = "PathFilter"
       /\ \A k \in 1..Len(stages) :
             stages[k] \notin {"Sort", "Filter", "Deduplicate",
                               "ReapplyClusterOrdering", "Render"}
       /\ Last(out).sink = "stderr"
       /\ \A k \in 1..Len(out) : out[k].sink = "stderr"

\* A CSV run over a list with rows stopped at a path that fails to stat.
C16_Witness ==
    /\ args.path.some /\ ~args.path.md_ok
    /\ args.csv
    /\ rows # <<>>
    /\ rpc = "exit"
    /\ Last(stages) = "PathFilter"
    /\ Last(out).sink = "stderr"

----------------------------------------------------------------------------
(* discover_lustre_mounts: the search over the mounted instances *)

MaxInstances == 2

\* What collect_lustre_mounts finds behind an instance it can open:
\* nothing, a metadata target, or a metadata target, an object target and
\* the aggregate.
InstanceShapes == {"empty", "mdt", "full"}

\* The instances llapi_search_mounts reports, in index order: the mount
\* directory and filesystem name it writes to the buffers, whether
\* libc::open of the mount directory succeeds, and what lies behind it.
Instances ==
    [mntdir : {<<>>, Mntdir, <<"/", "m">>},
     fsname : {Fsname},
     opens : BOOLEAN,
     shape : InstanceShapes]

\* collect_lustre_mounts(mntdir, fsname) as discover_lustre_mounts sees
\* it: Err when the mount directory cannot be opened, else the records.
collect_lustre_mounts(inst) ==
    LET mdt == create_lustre_component_mount(inst.mntdir, inst.fsname, StatA,
                                             TargetUuid("MDT", 0), "MDT", 0, 0)
        ost == create_lustre_component_mount(inst.mntdir, inst.fsname, StatA,
                                             TargetUuid("OST", 0), "OST", 0, 0)
        client == ClientMount(inst.mntdir, inst.fsname,
                              [AccInit EXCEPT !.total_blocks = 4, !.ost_count = 1])
    IN  IF ~inst.opens THEN [ok |-> FALSE, v |-> <<>>]
        ELSE [ok |-> TRUE,
              v |-> CASE inst.shape = "empty" -> <<>>
                      [] inst.shape = "mdt" -> <<mdt>>
                      [] OTHER -> <<mdt, ost, client>>]

\* The search giving up at the first instance it cannot collect.
SearchControlStopOnErr(fs_mounts) == IF fs_mounts.ok THEN "continue" ELSE "break"

\* Lines 41-50: whatever collect_lustre_mounts returned, the loop goes on
\* to the next index.
SearchControl(fs_mounts) == "continue"

SearchInit ==
    /\ native \in [available : BOOLEAN,
                   instances : SeqsUpTo(Instances, MaxInstances)]
    /\ asked = [f \in Families |-> [i \in 0..(Ceiling + 1) |-> 0]]
    /\ dpc = "probe"
    /\ index = 0
    /\ mounts = <<>>
    /\ acc = AccInit
    /\ qlog = <<>>
    /\ FnIdle
    /\ RunIdle

\* Lines 17-25: without the lfs tool the result is empty.
Probe ==
    /\ dpc = "probe"
    /\ dpc' = IF native.available THEN "search" ELSE "done"
    /\ UNCHANGED <<native, asked, index, mounts, acc, qlog>>
    /\ UNCHANGED <<fvars, rvars>>

\* Lines 28-50: llapi_search_mounts reports the instance at `index`; its
\* records are appended when its mount directory is not empty and
\* collect_lustre_mounts returns Ok.
SearchFound ==
    /\ dpc = "search"
    /\ index < Len(native.instances)
    /\ LET inst == native.instances[index + 1]
           fs_mounts == IF inst.mntdir # <<>>
                        THEN collect_lustre_mounts(inst)
                        ELSE [ok |-> TRUE, v |-> <<>>]
       IN  /\ mounts' = IF fs_mounts.ok THEN mounts \o fs_mounts.v ELSE mounts
           /\ dpc' = IF SearchControl(fs_mounts) = "continue"
                     THEN "search" ELSE "done"
    /\ index' = index + 1
    /\ qlog' = Append(qlog, index)
    /\ UNCHANGED <<native, asked, acc>>
    /\ UNCHANGED <<fvars, rvars>>

\* Line 28: llapi_search_mounts reports no instance at `index`.
SearchEnd ==
    /\ dpc = "search"
    /\ index >= Len(native.instances)
    /\ dpc' = "done"
    /\ qlog' = Append(qlog, index)
    /\ UNCHANGED <<native, asked, index, mounts, acc>>
    /\ UNCHANGED <<fvars, rvars>>

SearchNext ==
    \/ Probe
    \/ SearchFound
    \/ SearchEnd

SpecSearch == SearchInit /\ [][SearchNext]_vars

\* The records of instance k as they must be returned: those behind its
\* mount directory if that is named and can be opened, none otherwise.
RecordsOf(k) ==
    LET inst == native.instances[k] IN
    IF inst.mntdir # <<>> /\ inst.opens
    THEN collect_lustre_mounts([inst EXCEPT !.opens = TRUE]).v
    ELSE <<>>

RECURSIVE RecordsUpTo(_)
RecordsUpTo(k) == IF k = 0 THEN <<>> ELSE RecordsUpTo(k - 1) \o RecordsOf(k)

\* C17: an instance whose mount directory cannot be opened contributes no
\* record and does not end the search: every index up to the first one
\* without an instance is searched, in order, and the list returned is
\* the records of the other instances, unchanged and in instance order.
C17_OpenFailureSkipsInstance ==
    /\ dpc = "search" => /\ mounts = RecordsUpTo(index)
                         /\ qlog = [k \in 1..index |-> k - 1]
    /\ (dpc = "done" /\ native.available)
       => /\ mounts = RecordsUpTo(Len(native.instances))
          /\ qlog = [k \in 1..(Len(native.instances) + 1) |-> k - 1]

\* The search ended after an instance that could not be opened was
\* followed by one that could, whose records are the result.
C17_Witness ==
    /\ dpc = "done"
    /\ Len(native.instances) = 2
    /\ native.instances[1].mntdir # <<>> /\ ~native.instances[1].opens
    /\ native.instances[1].shape = "full"
    /\ native.instances[2].mntdir # <<>> /\ native.instances[2].opens
    /\ native.instances[2].shape = "full"
    /\ mounts = RecordsOf(2)
    /\ Len(mounts) = 3

----------------------------------------------------------------------------
(* The LUSTRE_INFO table *)

\* The conversion of the discovered records (lines 140-142) is done.
Converted ==
    /\ rpc # "panicked"
    /\ \E k \in 1..Len(stages) : stages[k] = "DiscoverAndMerge"

\* The mount paths of the discovered records.
DiscoveredPaths == {lustre_mounts[k].mount_point : k \in 1..Len(lustre_mounts)}

\* The table is empty until the conversion and afterwards holds one
\* entry per discovered mount path, each path converted once.
C20_Table ==
    IF Converted
    THEN /\ DOMAIN LUSTRE_INFO = DiscoveredPaths
         /\ Cardinality(DiscoveredPaths) = Len(lustre_mounts)
    ELSE LUSTRE_INFO = <<>>

\* The table changes in the conversion step only.
C20_Step == LUSTRE_INFO' # LUSTRE_INFO => rpc = "discover"

-----------------------------------------------------------------------------
(* The aggregate record against the component records of one discovery *)

\* The sum of f[x] over the finite set S.
RECURSIVE SumOver(_, _)
SumOver(f, S) ==
    IF S = {} THEN 0
    ELSE LET x == CHOOSE y \in S : TRUE
         IN  f[x] + SumOver(f, S \ {x})

\* The component records of family major (1 metadata, 2 object) that carry
\* statistics.
StatRecords(ms, major) ==
    {k \in ComponentRecords(ms) :
        ms[k].dev.major = major /\ ms[k].stats.kind = "ok"}

\* The sum of one block figure over the records K of ms.
BlockSum(ms, K, field) ==
    SumOver([k \in K |-> ms[k].stats[field]], K)

\* The sum of one file figure over the records K of ms; a record without
\* inode figures adds nothing.
FileSum(ms, K, field) ==
    SumOver([k \in K |-> ms[k].stats.inodes[field]], K)

\* The indices of family fam the component loop asked while the target
\* was temporarily unavailable: it pushed no record for them, and the
\* aggregate's loop, asking again, got statistics.
LateTargets(fam, l) ==
    {i \in 0..(Len(Targets(fam)) - 1) :
        /\ Targets(fam)[i + 1] = "busy"
        /\ \E n \in 1..Len(qlog[l]) : qlog[l][n] = i}

\* The aggregate record discovery ended with, when it built one.
TheAggregate == mounts[CHOOSE k \in AggregateRecords(mounts) : TRUE]

AggregateBuilt == dpc = "done" /\ AggregateRecords(mounts) # {}

NoObjectQuerySucceeded ==
    \A i \in 0..(Ceiling + 1) :
        \A n \in 0..(asked["OST"][i] - 1) : Answer("OST", i, n).rc # 0

\* C22: when no query of the object family succeeded, the aggregate that
\* discovery builds has the unreachable marker for statistics; and no
\* aggregate carries statistics with a total of 0 blocks.
C22_UnreachableAggregate ==
    AggregateBuilt =>
        /\ NoObjectQuerySucceeded => TheAggregate.stats = Unreachable
        /\ TheAggregate.stats.kind = "ok" => TheAggregate.stats.blocks > 0

\* An aggregate was built for an instance whose object targets were
\* queried by both passes and never answered success.
C22_Witness ==
    /\ AggregateBuilt
    /\ NoObjectQuerySucceeded
    /\ native.ost # <<>>
    /\ Len(qlog["client_ost"]) > 1
    /\ TheAggregate.stats = Unreachable

\* C23 as the specification states it: the aggregate's block size is the
\* block size of the lowest-indexed object target whose query by the
\* aggregate's loop succeeded.
C23_Original ==
    (AggregateBuilt /\ TheAggregate.stats.kind = "ok") =>
        LET ok == {i \in 0..(Ceiling + 1) :
                      /\ asked["OST"][i] > 0
                      /\ Answer("OST", i, asked["OST"][i] - 1).rc = 0}
            first == CHOOSE i \in ok : \A j \in ok : i <= j
        IN  TheAggregate.stats.bsize =
                Answer("OST", first, asked["OST"][first] - 1).stat.os_bsize

-----------------------------------------------------------------------------
(* One record per answered query of the component loops *)

\* The component records of family fam for index i.
RecordsFor(fam, i) ==
    {k \in 1..Len(mounts) :
        /\ mounts[k].dev.major = (IF fam = "MDT" THEN 1 ELSE 2)
        /\ mounts[k].dev.minor = i}

\* The indices the component loop l has finished with.
Handled(l) ==
    {qlog[l][n] : n \in 1..Len(qlog[l])} \ (IF dpc = l THEN {index} ELSE {})

ComponentLoop(fam) == IF fam = "MDT" THEN "mdt" ELSE "ost"

\* C24: for every index a component loop has queried, the result code of
\* that query decides the records of the index: success gives exactly one
\* record carrying the block statistics the query returned, ENODATA gives
\* exactly one record without statistics marked unreachable, any other
\* code gives none; an index that was never queried has no record.
C24_OneRecordPerAnswer ==
    \A fam \in Families : \A i \in 0..(Ceiling + 1) :
        LET a == Answer(fam, i, 0)
            recs == RecordsFor(fam, i)
        IN  IF i \in Handled(ComponentLoop(fam)) /\ a.rc = 0
            THEN /\ Cardinality(recs) = 1
                 /\ \A k \in recs :
                       /\ mounts[k].stats.kind = "ok"
                       /\ mounts[k].stats.bsize = a.stat.os_bsize
                       /\ mounts[k].stats.blocks = a.stat.os_blocks
                       /\ mounts[k].stats.bfree = a.stat.os_bfree
                       /\ mounts[k].stats.bavail = a.stat.os_bavail
            ELSE IF i \in Handled(ComponentLoop(fam)) /\ a.rc = ENODATA
            THEN /\ Cardinality(recs) = 1
                 /\ \A k \in recs : mounts[k].stats = Unreachable
            ELSE recs = {}

\* Discovery ended after a component loop met a target answering success,
\* one answering ENODATA and one answering an unknown code or 'try again'.
C24_Witness ==
    /\ dpc = "done"
    /\ \E k \in ComponentRecords(mounts) : mounts[k].stats.kind = "ok"
    /\ \E k \in ComponentRecords(mounts) : mounts[k].stats = Unreachable
    /\ \E fam \in Families : \E i \in Handled(ComponentLoop(fam)) :
          /\ Answer(fam, i, 0).rc \notin {0, ENODATA, ENODEV}
          /\ RecordsFor(fam, i) = {}

-----------------------------------------------------------------------------
(* replace_lustre_client_mounts, one iteration at a time *)

MaxReplace == 2

OtherMntdir == <<"/", "m">>

\* The catalog rows: the clustered client mounts of two instances, an
\* ordinary filesystem mounted over the first one's directory and the
\* root.
ReplaceCatalogShapes ==
    {ListedMount("lustre", 0, <<"1", ":", "/", "f", "s">>, Mntdir),
     ListedMount("lustre", 0, <<"1", ":", "/", "g">>, OtherMntdir),
     ListedMount("ext4", 1, <<"d">>, Mntdir),
     ListedMount("ext4", 2, <<"e">>, <<"/">>)}

\* What discovery hands over: the aggregates of the two instances and
\* component records of the first.
ReplaceDiscoveredShapes ==
    {DiscoveredClient,
     [DiscoveredClient EXCEPT !.mount_point = OtherMntdir],
     DiscoveredMdt0,
     DiscoveredOst0}

ReplaceInit ==
    /\ DiscIdle
    /\ RunIdle
    /\ fpc = "replace"
    /\ arg \in [mounts : SeqsUpTo(ReplaceCatalogShapes, MaxReplace),
                lustre_mounts : SeqsUpTo(ReplaceDiscoveredShapes, MaxReplace)]
    /\ res = [done |-> 0, mounts |-> arg.mounts]

\* One iteration of `for lustre_mount in lustre_mounts`.
ReplaceIteration ==
    /\ fpc = "replace"
    /\ res.done < Len(arg.lustre_mounts)
    /\ res' = [done |-> res.done + 1,
               mounts |-> replace_lustre_client_mounts(
                              res.mounts,
                              <<arg.lustre_mounts[res.done + 1]>>)]
    /\ UNCHANGED <<fpc, arg>>
    /\ UNCHANGED <<dvars, rvars>>

\* The loop is over: replace_lustre_client_mounts returns.
ReplaceReturn ==
    /\ fpc = "replace"
    /\ res.done = Len(arg.lustre_mounts)
    /\ fpc' = "returned"
    /\ UNCHANGED <<arg, res>>
    /\ UNCHANGED <<dvars, rvars>>

ReplaceNext == ReplaceIteration \/ ReplaceReturn

SpecReplace == ReplaceInit /\ [][ReplaceNext]_vars

\* A record create_lustre_component_mount built: its device id carries
\* the family.
BuiltAsComponent(m) == m.dev.major \in {1, 2}

\* The rows of ms that the aggregate lm replaces: type lustre and the
\* mount point of lm.
SameMountRows(ms, lm) ==
    {k \in 1..Len(ms) :
        ms[k].fs_type = "lustre" /\ ms[k].mount_point = lm.mount_point}

\* What one iteration on the discovered record lm may do to the list.
ReplaceFrame(before, after, lm) ==
    IF BuiltAsComponent(lm)
    THEN after = before
    ELSE IF SameMountRows(before, lm) # {}
    THEN LET pos == CHOOSE k \in SameMountRows(before, lm) :
                        \A j \in SameMountRows(before, lm) : k <= j
         IN  /\ Len(after) = Len(before)
             /\ after[pos] = lm
             /\ \A j \in 1..Len(before) : j # pos => after[j] = before[j]
    ELSE after = Append(before, lm)

C25_Step ==
    (fpc = "replace" /\ res'.done = res.done + 1) =>
        ReplaceFrame(res.mounts, res'.mounts, arg.lustre_mounts[res'.done])

\* C25: each iteration on an aggregate record overwrites in place the
\* first catalog row of type lustre with the same mount point, leaving
\* the length and every other row as they were, or appends the aggregate
\* when there is no such row; an iteration on a component record leaves
\* the list as it was. The list the call returns is the one its
\* iterations built and holds no component record that the catalog did
\* not hold.
C25_ReplaceInPlace ==
    /\ [](fpc = "returned" =>
            /\ res.mounts = replace_lustre_client_mounts(arg.mounts,
                                                         arg.lustre_mounts)
            /\ \A k \in 1..Len(res.mounts) : ~BuiltAsComponent(res.mounts[k]))
    /\ [][C25_Step]_vars

\* The call returned after overwriting the client row of one instance in
\* place, appending the aggregate of another and passing over a
\* component record, with an ordinary row on the first mount point left
\* alone.
C25_Witness ==
    /\ fpc = "returned"
    /\ Len(arg.mounts) = 2
    /\ arg.mounts[1].fs_type = "ext4" /\ arg.mounts[1].mount_point = Mntdir
    /\ arg.mounts[2].fs_type = "lustre" /\ arg.mounts[2].mount_point = Mntdir
    /\ arg.lustre_mounts = <<DiscoveredClient, DiscoveredOst0>>
    /\ res.mounts = <<arg.mounts[1], DiscoveredClient>>

-----------------------------------------------------------------------------
(* Col::comparator: col.rs *)

MaxBlocks == 2

\* The arm of a column whose closure matches on (a.stats(), b.stats()) or
\* (a.inodes(), b.inodes()): (Some, None) is Greater, (None, Some) Less.
StatsArm(a_some, b_some, both) ==
    IF a_some /\ b_some THEN both
    ELSE IF a_some THEN 1
    ELSE IF b_some THEN -1
    ELSE 0

\* TextArm with the two mixed arms swapped: (Some, None) is Greater.
TextArmAbsentFirst(a_some, b_some, both) ==
    IF a_some /\ b_some THEN both
    ELSE IF a_some THEN 1
    ELSE IF b_some THEN -1
    ELSE 0

\* The arm of Label, Uuid and PartUuid: (Some, None) is Less, (None, Some)
\* Greater.
TextArm(a_some, b_some, both) ==
    IF a_some /\ b_some THEN both
    ELSE IF a_some THEN -1
    ELSE IF b_some THEN 1
    ELSE 0

\* Mount::inodes(): the inode figures of a record with statistics.
has_inodes(m) == has_stats(m) /\ m.stats.inodes.some

\* Stats::available, Stats::used, Inodes::used
StatsAvailable(stats) == stats.bsize * stats.bavail
StatsUsed(stats) == StatsSize(stats) - StatsAvailable(stats)
InodesUsed(inodes) == inodes.files - inodes.favail

\* partial_cmp of two shares used/total, each 0 when its total is 0.
ShareCmp(a_used, a_total, b_used, b_total) ==
    IntCmp((IF a_total = 0 THEN 0 ELSE a_used) * (IF b_total = 0 THEN 1 ELSE b_total),
           (IF b_total = 0 THEN 0 ELSE b_used) * (IF a_total = 0 THEN 1 ELSE a_total))

StatCols == {"Used", "Use", "UsePercent", "Free", "FreePercent", "Size"}

InodeCols == {"InodesUsed", "InodesUsePercent", "InodesUse", "InodesFree",
              "InodesCount"}

TextCols == {"Label", "Uuid", "PartUuid"}

\* Col::comparator for the columns that match on an Option.
comparator(col, a, b) ==
    LET sa == a.stats
        sb == b.stats
        ia == a.stats.inodes
        ib == b.stats.inodes
    IN  CASE col = "Label" ->
               TextArm(a.fs_label.some, b.fs_label.some,
                       StrCmp(a.fs_label.v, b.fs_label.v))
          [] col = "Used" ->
               StatsArm(has_stats(a), has_stats(b),
                        IntCmp(StatsUsed(sa), StatsUsed(sb)))
          [] col \in {"Use", "UsePercent"} ->
               StatsArm(has_stats(a), has_stats(b),
                        ShareCmp(StatsUsed(sa), StatsSize(sa),
                                 StatsUsed(sb), StatsSize(sb)))
          [] col = "Free" ->
               StatsArm(has_stats(a), has_stats(b),
                        IntCmp(StatsAvailable(sa), StatsAvailable(sb)))
          [] col = "FreePercent" ->
               StatsArm(has_stats(a), has_stats(b),
                        ShareCmp(StatsUsed(sb), StatsSize(sb),
                                 StatsUsed(sa), StatsSize(sa)))
          [] col = "Size" ->
               StatsArm(has_stats(a), has_stats(b),
                        IntCmp(StatsSize(sa), StatsSize(sb)))
          [] col = "InodesUsed" ->
               StatsArm(has_inodes(a), has_inodes(b),
                        IntCmp(InodesUsed(ia), InodesUsed(ib)))
          [] col \in {"InodesUsePercent", "InodesUse"} ->
               StatsArm(has_inodes(a), has_inodes(b),
                        ShareCmp(InodesUsed(ia), ia.files,
                                 InodesUsed(ib), ib.files))
          [] col = "InodesFree" ->
               StatsArm(has_inodes(a), has_inodes(b),
                        IntCmp(ia.favail, ib.favail))
          [] col = "InodesCount" ->
               StatsArm(has_inodes(a), has_inodes(b),
                        IntCmp(ia.files, ib.files))
          [] col = "Uuid" ->
               TextArm(a.uuid.some, b.uuid.some, StrCmp(a.uuid.v, b.uuid.v))
          [] col = "PartUuid" ->
               TextArm(a.part_uuid.some, b.part_uuid.some,
                       StrCmp(a.part_uuid.v, b.part_uuid.v))

\* The statistics of the compared records: present with or without inode
\* figures, unreachable, or not obtained.
ComparedStats ==
    {OkStats(4096, blocks, blocks, bavail, inodes) :
        blocks \in 1..MaxBlocks, bavail \in 0..1,
        inodes \in {NoInodes, SomeInodes(3, 2), SomeInodes(4, 1)}}
    \cup {Unreachable, NoStats}

\* Their label, uuid and partition uuid.
ComparedTexts ==
    {<<NoStr, NoStr, NoStr>>,
     <<SomeStr(<<"a">>), NoStr, NoStr>>,
     <<NoStr, SomeStr(<<"c">>), NoStr>>,
     <<NoStr, NoStr, SomeStr(<<"e">>)>>,
     <<SomeStr(<<"b">>), SomeStr(<<"d">>), SomeStr(<<"f">>)>>}

ComparedMounts ==
    {[ListedMount("ext4", 1, <<"d">>, <<"/">>) EXCEPT
         !.stats = s, !.fs_label = t[1], !.uuid = t[2], !.part_uuid = t[3]] :
        s \in ComparedStats, t \in ComparedTexts}

CmpInit ==
    /\ DiscIdle
    /\ RunIdle
    /\ fpc = "ready"
    /\ arg \in [col : StatCols \cup InodeCols \cup TextCols,
                a : ComparedMounts, b : ComparedMounts]
    /\ res = <<>>

\* One call of the closure col.comparator() on (a, b).
CallComparator ==
    /\ fpc = "ready"
    /\ res' = comparator(arg.col, arg.a, arg.b)
    /\ fpc' = "returned"
    /\ UNCHANGED arg
    /\ UNCHANGED <<dvars, rvars>>

SpecCmp == CmpInit /\ [][CallComparator]_vars

\* Whether the record carries what the column compares.
HasValue(col, m) ==
    CASE col \in StatCols -> m.stats.kind = "ok"
      [] col \in InodeCols -> m.stats.kind = "ok" /\ m.stats.inodes.some
      [] col = "Label" -> m.fs_label.some
      [] col = "Uuid" -> m.uuid.some
      [] col = "PartUuid" -> m.part_uuid.some

\* C26 as the specification states it: for the usage, size and inode
\* columns a record without the figures is Greater than (sorts after) a
\* record with them; for label, uuid and partuuid a record without the
\* value is Less than (sorts before) a record with it.
C26_Original ==
    (fpc = "returned" /\ ~HasValue(arg.col, arg.a) /\ HasValue(arg.col, arg.b))
        => res = (IF arg.col \in TextCols THEN -1 ELSE 1)

\* C26: for the usage, size and inode columns the comparator makes a
\* record without the compared figures Less than every record that has
\* them (it comes first in the comparator's order); for label, uuid and
\* partuuid it makes a record without the value Greater than every
\* record that has it (it comes last); two records without compare
\* Equal.
C26_AbsentValues ==
    fpc = "returned" =>
        /\ (~HasValue(arg.col, arg.a) /\ HasValue(arg.col, arg.b))
              => res = (IF arg.col \in TextCols THEN 1 ELSE -1)
        /\ (HasValue(arg.col, arg.a) /\ ~HasValue(arg.col, arg.b))
              => res = (IF arg.col \in TextCols THEN -1 ELSE 1)
        /\ (~HasValue(arg.col, arg.a) /\ ~HasValue(arg.col, arg.b))
              => res = 0

\* The label comparator was given a record without a label and one with
\* a label, and a usage comparator a record without statistics and one
\* with statistics.
C26_Witness ==
    /\ fpc = "returned"
    /\ ~HasValue(arg.col, arg.a)
    /\ HasValue(arg.col, arg.b)
    /\ arg.col = "Label"
    /\ res = 1

-----------------------------------------------------------------------------
(* The auxiliary path listing of check_duplicate *)

\* C27 as the specification states it: after check_duplicate, for every
\* ordinary group of more than one record, every mount path of the group
\* is listed in mount_points_map under the display filesystem name of the
\* group's representative.
C27_Original ==
    fpc = "returned" =>
        \A k \in 1..Len(arg) :
            LET G == OrdinaryGroup(arg, arg[k].dev)
                R == OrdinaryGroup(res.deduplicated, arg[k].dev)
            IN  (arg[k].fs_type # "lustre" /\ Cardinality(G) > 1) =>
                    \A j \in R :
                        LET fs_name == extract_fsname(res.deduplicated[j])
                        IN  /\ fs_name \in DOMAIN res.mount_points_map
                            /\ \A i \in G :
                                  \E n \in 1..Len(res.mount_points_map[fs_name]) :
                                      res.mount_points_map[fs_name][n]
                                          = arg[i].mount_point

-----------------------------------------------------------------------------
(* collect_lustre_layout_info on the answers of the layout query *)

MaxOver == 1

\* The stripe counts and sizes a layout may return: the ends of the
\* accepted ranges, values inside and values outside on both sides.
StripeCounts == {0, 1, 4, 1000} \cup {1000 + k : k \in 1..MaxOver}

StripeSizes ==
    {65536 - k : k \in 1..MaxOver}
    \cup {65536, 1048576, 1024 * 1024 * 1024}
    \cup {1024 * 1024 * 1024 + k : k \in 1..MaxOver}

LayoutAnswers ==
    {LayoutErr}
    \cup {LayoutOf(stripe_count, stripe_size, pool_name, mirror_count) :
            stripe_count \in {NoInt} \cup {SomeInt(v) : v \in StripeCounts},
            stripe_size \in {NoInt} \cup {SomeInt(v) : v \in StripeSizes},
            pool_name \in {NoStr, SomeStr(<<>>), SomeStr(<<"a">>)},
            mirror_count \in {NoInt, SomeInt(0), SomeInt(2)}}

LayoutInit ==
    /\ DiscIdle
    /\ RunIdle
    /\ fpc = "ready"
    /\ arg \in [mount_point : {DiscoveredClient.mount_point,
                               DiscoveredOst0.mount_point},
                layout : LayoutAnswers]
    /\ res = <<>>

\* One call collect_lustre_layout_info(arg.mount_point), the layout query
\* answering arg.layout.
CallCollectLayoutInfo ==
    /\ fpc = "ready"
    /\ res' = collect_lustre_layout_info(arg.mount_point, arg.layout)
    /\ fpc' = "returned"
    /\ UNCHANGED arg
    /\ UNCHANGED <<dvars, rvars>>

SpecLayout == LayoutInit /\ [][CallCollectLayoutInfo]_vars

\* The layout query returned value v for the field and v is within
\* lo..hi.
ReturnedWithin(layout, field, v, lo, hi) ==
    /\ layout.ok
    /\ layout[field] = SomeInt(v)
    /\ lo <= v /\ v <= hi

\* The layout query returned a value for the field outside lo..hi.
ReturnedOutside(layout, field, lo, hi) ==
    /\ layout.ok
    /\ layout[field].some
    /\ (layout[field].v < lo \/ layout[field].v > hi)

\* C28 as the specification states it: for the aggregate's mount path a
\* stripe count returned outside 1..1000 or a stripe size returned
\* outside 64 KiB..1 GiB leaves the entry without a value for that
\* field, and the entry carries a stripe count or a stripe size only if
\* the layout query returned that value within the bounds.
C28_Original ==
    (fpc = "returned" /\ arg.mount_point = DiscoveredClient.mount_point) =>
        /\ ReturnedOutside(arg.layout, "stripe_count", 1, 1000) =>
              ~res.stripe_count.some
        /\ ReturnedOutside(arg.layout, "stripe_size", 65536,
                           1024 * 1024 * 1024) =>
              ~res.stripe_size.some
        /\ res.stripe_count.some =>
              ReturnedWithin(arg.layout, "stripe_count",
                             res.stripe_count.v, 1, 1000)
        /\ res.stripe_size.some =>
              ReturnedWithin(arg.layout, "stripe_size",
                             res.stripe_size.v, 65536, 1024 * 1024 * 1024)

-----------------------------------------------------------------------------
(* extract_component_info on the paths discovery synthesizes *)

MaxDir == 2

\* The mount directories: "/" followed by up to MaxDir characters, the
\* brackets among them, and one directory whose name holds a component
\* annotation.
MountDirs ==
    {<<"/">> \o s : s \in SeqsUpTo({"a", "[", "]"}, MaxDir)}
    \cup {<<"/", "[", "M", "D", "T", ":", "7", "]">>}

\* The path of the record synthesized for (family, idx) under mntdir; the
\* aggregate's path is the mount directory itself.
SynthesizedPath(mntdir, family, idx) ==
    IF family = "CLIENT" THEN ClientMount(mntdir, Fsname, AccInit).mount_point
    ELSE create_lustre_component_mount(mntdir, Fsname, ZeroStat, <<>>,
                                       family, idx, 0).mount_point

InfoInit ==
    /\ DiscIdle
    /\ RunIdle
    /\ fpc = "ready"
    /\ arg \in [mntdir : MountDirs, family : {"MDT", "OST", "CLIENT"},
                idx : {0, 1, 12}]
    /\ res = <<>>

\* One call extract_component_info on the synthesized path.
CallExtractComponentInfo ==
    /\ fpc = "ready"
    /\ res' = extract_component_info(
                  SynthesizedPath(arg.mntdir, arg.family, arg.idx))
    /\ fpc' = "returned"
    /\ UNCHANGED arg
    /\ UNCHANGED <<dvars, rvars>>

SpecInfo == InfoInit /\ [][CallExtractComponentInfo]_vars

\* C29 as the specification states it: for every mount directory the
\* derivation does not panic; from a component path it derives the
\* family and index the record was created with, and from the
\* aggregate's path the type CLIENT and no index.
C29_Original ==
    fpc = "returned" =>
        /\ ~res.panic
        /\ IF arg.family = "CLIENT"
           THEN /\ res.type = SomeStr(<<"C", "L", "I", "E", "N", "T">>)
                /\ res.index = NoInt
           ELSE /\ res.type = SomeStr(FamilyChars(arg.family))
                /\ res.index = SomeInt(arg.idx)

-----------------------------------------------------------------------------
(* The topology closure of run() on three rows *)

MaxTopoIndex == 1

\* The name of a target of instance fsname whose uuid buffer was filled.
UuidName(fsname, fam, i) ==
    fsname \o <<"-">> \o FamilyChars(fam) \o PadLeft(Decimal(i), 4, "0")
    \o <<"_", "U", "U", "I", "D">>

\* The names discovery gives the rows of two instances "a" and "z": the
\* targets' uuids, the fallback name of a target with an empty uuid
\* buffer, the aggregates' names and the name "filesystem_summary".
TopologyNames ==
    {UuidName(fsname, fam, i) :
        fsname \in {<<"a">>, <<"z">>}, fam \in Families, i \in 0..MaxTopoIndex}
    \cup {DiscoveredOst1NoUuid.fs, FilesystemSummary}
    \cup {ClientMount(Mntdir, fsname, AccInit).fs :
            fsname \in {<<"a">>, <<"z">>}}

TopologyRows == {[DiscoveredOst0 EXCEPT !.fs = name] : name \in TopologyNames}

TopoInit ==
    /\ DiscIdle
    /\ RunIdle
    /\ fpc = "ready"
    /\ arg \in [a : TopologyRows, b : TopologyRows, c : TopologyRows]
    /\ res = <<>>

\* The closure given to mounts.sort_by, called on the pairs of (a, b, c).
CallTopologyClosure ==
    /\ fpc = "ready"
    /\ res' = [ab |-> Compare("topology", arg.a, arg.b),
               ba |-> Compare("topology", arg.b, arg.a),
               bc |-> Compare("topology", arg.b, arg.c),
               ac |-> Compare("topology", arg.a, arg.c)]
    /\ fpc' = "returned"
    /\ UNCHANGED arg
    /\ UNCHANGED <<dvars, rvars>>

SpecTopo == TopoInit /\ [][CallTopologyClosure]_vars

\* C30 as the specification states it: the closure is antisymmetric and
\* transitive on every three clustered rows: a before b and b before c
\* imply a before c.
C30_Original ==
    fpc = "returned" =>
        /\ res.ab = 0 - res.ba
        /\ (res.ab = -1 /\ res.bc = -1) => res.ac = -1

====
